---- MODULE Spec2Model ----
(***************************************************************************)
(* Model of powergenome/generators.py: the existing-generator pipeline of  *)
(* GeneratorClusters.create_region_technology_clusters.                    *)
(*                                                                         *)
(* Tables (pandas DataFrames) are sequences of records, one record per     *)
(* row.  Floating point columns are exact rationals <<n, d>> with d > 0;   *)
(* the missing value NaN is <<0, 0>>.                                      *)
(*                                                                         *)
(* The pipeline is one long method; the model cuts it at the places where  *)
(* the claims look at it and gives each stretch its own specification:     *)
(*   SpecRemove   remove_canceled_860m, remove_retired_860m                *)
(*   SpecHR       heat-rate estimation (lines 2691-2743)                   *)
(*   SpecCluster  retired split, clustering loop (lines 2819-2948)         *)
(*   SpecTx       calculate_transmission_inv_cost                          *)
(*   SpecRegion   load_plant_region_map and the merge with the generators  *)
(*   SpecSupplement  supplement_generator_860_data, prime mover codes      *)
(*   SpecRetire   label_retirement_year                                    *)
(*   SpecAll      create_all_generators, called repeatedly                 *)
(* Functions the pipeline applies to a table are checked on their own:     *)
(*   SpecFillTech fill_missing_tech_descriptions                           *)
(*   SpecFuel     add_fuel_labels                                          *)
(*   SpecStartup  startup_nonfuel_costs, called on both resource tables    *)
(*   SpecTags     add_genx_model_tags                                      *)
(***************************************************************************)
EXTENDS Integers, Sequences, FiniteSets, TLC

VARIABLES
    pc,                  \* position in the pipeline
    error,               \* the exception that ended the run, "" if none
    df,                  \* the table piped through the reconciliation steps
    canceled_860m,       \* 860m "Canceled or Postponed" sheet
    retired_860m,        \* 860m "Retired" sheet
    canceled,            \* rows remove_canceled_860m matched (its local `canceled`)
    retired_rows,        \* rows remove_retired_860m matched (its local `retired`)
    gens_860_model,      \* self.gens_860_model
    weighted_unit_hr,    \* self.weighted_unit_hr: (plant, unit) -> heat rate
    prime_mover_hr_map,  \* self.prime_mover_hr_map: (plant, pm, fuel) -> heat rate
    units_model,         \* self.units_model
    settings,            \* self.settings
    num_clusters,        \* the local num_clusters: region -> technology -> k
    region_tech_grouped, \* the rows grouped at line 2832
    todo,                \* keys of the groups the loop at line 2856 has yet to visit
    retired,             \* self.retired
    unit_list,           \* the local unit_list
    cluster_list,        \* self.cluster_list
    results,             \* self.results; the local `results` of fill_missing_tech_descriptions
    log,                 \* records written to the logger
    fitted,              \* what the seeded k-means has returned: (X, k, seed) -> labels_
    capacity_factors,    \* self.capacity_factors
    dg_profiles,         \* distributed generation: region -> peak MW of its profile
    current_gens,        \* self.current_gens
    sort_gens,           \* self.sort_gens
    existing_resources,  \* self.existing_resources
    new_resources,       \* self.new_resources
    all_resources,       \* self.all_resources
    run,                 \* how many times create_all_generators has been called
    first_run,           \* the table the first call returned
    resource_df,         \* the table given to calculate_transmission_inv_cost
    offshore_spur_costs, \* its offshore_spur_costs argument
    fuel_prices,         \* the fuel_prices argument of add_fuel_labels
    gen_923,             \* self.gen_923
    region_map_df,       \* the plant/region table load_plant_region_map reads
    all_hydro_regions,   \* the hydro plants label_hydro_region places
    model_region_map_df, \* the table load_plant_region_map returns
    add_additional_retirements  \* the argument of label_retirement_year

reconVars == <<df, canceled_860m, retired_860m, canceled, retired_rows>>

hrVars == <<gens_860_model, weighted_unit_hr, prime_mover_hr_map>>

clusterVars == <<settings, num_clusters, region_tech_grouped, todo, retired,
                 unit_list, cluster_list, results, log, fitted>>

buildVars == <<capacity_factors, dg_profiles, current_gens, sort_gens,
               existing_resources, new_resources, all_resources, run, first_run>>

txVars == <<resource_df, offshore_spur_costs, fuel_prices>>

loadVars == <<gen_923, region_map_df, all_hydro_regions, model_region_map_df,
              add_additional_retirements>>

otherVars == <<buildVars, txVars, loadVars>>

vars == <<pc, error, reconVars, hrVars, units_model, clusterVars, otherVars>>

\* the parts of the state a stretch of the pipeline does not use
ReconIdle ==
    /\ df = <<>>
    /\ canceled_860m = <<>>
    /\ retired_860m = <<>>
    /\ canceled = <<>>
    /\ retired_rows = <<>>

HRIdle ==
    /\ gens_860_model = <<>>
    /\ weighted_unit_hr = <<>>
    /\ prime_mover_hr_map = <<>>

ClusterIdle ==
    /\ settings = <<>>
    /\ num_clusters = <<>>
    /\ region_tech_grouped = <<>>
    /\ todo = <<>>
    /\ retired = <<>>
    /\ unit_list = <<>>
    /\ cluster_list = <<>>
    /\ results = <<>>
    /\ log = <<>>
    /\ fitted = <<>>

BuildIdle ==
    /\ capacity_factors = <<>>
    /\ dg_profiles = <<>>
    /\ current_gens = TRUE
    /\ sort_gens = FALSE
    /\ existing_resources = <<>>
    /\ new_resources = <<>>
    /\ all_resources = <<>>
    /\ run = 0
    /\ first_run = <<>>

TxIdle ==
    /\ resource_df = <<>>
    /\ offshore_spur_costs = <<>>
    /\ fuel_prices = <<>>

LoadIdle ==
    /\ gen_923 = <<>>
    /\ region_map_df = <<>>
    /\ all_hydro_regions = <<>>
    /\ model_region_map_df = <<>>
    /\ add_additional_retirements = TRUE

OtherIdle == BuildIdle /\ TxIdle /\ LoadIdle

(***************************************************************************)
(* Bounds of the model.                                                    *)
(***************************************************************************)
MaxUnits == 3       \* rows of the unit table in heat-rate estimation

MaxGens == 3        \* rows of the generator table in canceled/retired removal

MaxAmend == 1       \* rows of an 860m amendment sheet

MaxRows == 3        \* rows of the unit table at clustering

MaxK == 3           \* largest configured number of clusters

MaxResources == 2   \* rows of the new-build table given to the transmission costs

(***************************************************************************)
(* Exact arithmetic for float columns.                                     *)
(***************************************************************************)
NaN == <<0, 0>>

IsNull(x) == x[2] = 0

NotNull(x) == x[2] # 0

Abs(n) == IF n < 0 THEN -n ELSE n

RECURSIVE GCD(_, _)
GCD(a, b) == IF b = 0 THEN a ELSE GCD(b, a % b)

Norm(x) ==
    IF x[2] = 0 THEN NaN
    ELSE LET s == IF x[2] < 0 THEN -1 ELSE 1
             g == GCD(Abs(x[1]), Abs(x[2]))
         IN  <<(s * x[1]) \div g, (s * x[2]) \div g>>

Num(n) == <<n, 1>>

RAdd(x, y) ==
    IF IsNull(x) \/ IsNull(y) THEN NaN
    ELSE Norm(<<x[1] * y[2] + y[1] * x[2], x[2] * y[2]>>)

RMul(x, y) ==
    IF IsNull(x) \/ IsNull(y) THEN NaN
    ELSE Norm(<<x[1] * y[1], x[2] * y[2]>>)

RDiv(x, y) ==
    IF IsNull(x) \/ IsNull(y) \/ y[1] = 0 THEN NaN
    ELSE Norm(<<x[1] * y[2], x[2] * y[1]>>)

\* pandas comparisons: any comparison with NaN is False, and NaN != y is True
RLt(x, y) == NotNull(x) /\ NotNull(y) /\ x[1] * y[2] < y[1] * x[2]

RGt(x, y) == RLt(y, x)

RLe(x, y) == NotNull(x) /\ NotNull(y) /\ x[1] * y[2] <= y[1] * x[2]

RNe(x, y) == IsNull(x) \/ IsNull(y) \/ x # y

Range(s) == {s[i] : i \in DOMAIN s}

\* the rows of table t whose position satisfies keep, in order (df.loc[mask, :])
RECURSIVE SelectIdx(_, _, _)
SelectIdx(t, keep, i) ==
    IF i > Len(t) THEN <<>>
    ELSE IF i \in keep THEN <<t[i]>> \o SelectIdx(t, keep, i + 1)
         ELSE SelectIdx(t, keep, i + 1)

Loc(t, keep) == SelectIdx(t, keep, 1)

RECURSIVE RSumSeq(_, _)
RSumSeq(s, i) == IF i > Len(s) THEN Num(0) ELSE RAdd(s[i], RSumSeq(s, i + 1))

\* insertion of x into an ascending sequence
RECURSIVE Insert(_, _)
Insert(s, x) ==
    IF s = <<>> THEN <<x>>
    ELSE IF RLe(x, Head(s)) THEN <<x>> \o s
         ELSE <<Head(s)>> \o Insert(Tail(s), x)

RECURSIVE SortAsc(_)
SortAsc(s) == IF s = <<>> THEN <<>> ELSE Insert(SortAsc(Tail(s)), Head(s))

\* Series.dropna()
DropNa(s) == SelectSeq(s, NotNull)

\* Series.median(): NaN skipped; the mean of the two middle values when the
\* count is even; NaN for an all-NaN series
Median(s) ==
    LET v == SortAsc(DropNa(s))
        n == Len(v)
    IN  IF n = 0 THEN NaN
        ELSE IF n % 2 = 1 THEN v[(n + 1) \div 2]
             ELSE RDiv(RAdd(v[n \div 2], v[n \div 2 + 1]), Num(2))

(***************************************************************************)
(* Heat-rate estimation, create_region_technology_clusters lines 2691-2743 *)
(***************************************************************************)
HR_MAX == 35

HR_MIN == 5

\* dict lookup as done by Index.map(dict) and by a left merge: NaN when the
\* key is absent
MapGet(m, k) == IF k \in DOMAIN m THEN m[k] ELSE NaN

\* the index set at line 2697
Idx(r) == <<r.plant_id_eia, r.prime_mover_code, r.energy_source_code_1>>

\* gens_860_model.merge(weighted_unit_hr[hr_cols], on=[plant, unit], how="left")
MergeUnitHeatRates(gens, unit_hr) ==
    [i \in DOMAIN gens |->
        [plant_id_eia |-> gens[i].plant_id_eia,
         unit_id_pudl |-> gens[i].unit_id_pudl,
         prime_mover_code |-> gens[i].prime_mover_code,
         energy_source_code_1 |-> gens[i].energy_source_code_1,
         technology_description |-> gens[i].technology_description,
         heat_rate_mmbtu_mwh |->
             MapGet(unit_hr, <<gens[i].plant_id_eia, gens[i].unit_id_pudl>>)]]

\* mutant: the lookup keyed by (plant, fuel, prime mover), the index columns
\* in another order than the keys of the map
AssignPrimeMoverHeatRates_KeyOrder(t, hr_map) ==
    [i \in DOMAIN t |->
        IF IsNull(t[i].heat_rate_mmbtu_mwh)
        THEN [t[i] EXCEPT !.heat_rate_mmbtu_mwh =
                  MapGet(hr_map, <<t[i].plant_id_eia, t[i].energy_source_code_1,
                                   t[i].prime_mover_code>>)]
        ELSE t[i]]

\* lines 2709-2715: rows with a null heat rate take the plant/prime mover/fuel
\* heat rate of their index
AssignPrimeMoverHeatRates(t, hr_map) ==
    [i \in DOMAIN t |->
        IF IsNull(t[i].heat_rate_mmbtu_mwh)
        THEN [t[i] EXCEPT !.heat_rate_mmbtu_mwh = MapGet(hr_map, Idx(t[i]))]
        ELSE t[i]]

\* lines 2717-2721: rows with a heat rate above 35 take the plant/prime
\* mover/fuel heat rate of their index
ReassignHighHeatRates(t, hr_map) ==
    [i \in DOMAIN t |->
        IF RGt(t[i].heat_rate_mmbtu_mwh, Num(HR_MAX))
        THEN [t[i] EXCEPT !.heat_rate_mmbtu_mwh = MapGet(hr_map, Idx(t[i]))]
        ELSE t[i]]

\* mutant: the band without the exception for 0
OutOfBand_ZeroToo(h) == RLt(h, Num(HR_MIN)) \/ RGt(h, Num(HR_MAX))

\* lines 2725-2732: heat rates < 5 (but not 0) or > 35 become NaN
OutOfBand(h) ==
    \/ RLt(h, Num(HR_MIN)) /\ RNe(h, Num(0))
    \/ RGt(h, Num(HR_MAX))

BandHeatRates(t) ==
    [i \in DOMAIN t |->
        IF OutOfBand(t[i].heat_rate_mmbtu_mwh)
        THEN [t[i] EXCEPT !.heat_rate_mmbtu_mwh = NaN]
        ELSE t[i]]

\* GeneratorClusters.fill_na_heat_rates on a Series s
fill_na_heat_rates(s) ==
    IF \E i \in DOMAIN s : IsNull(s[i])
    THEN LET median_hr == Median(s)
         IN  [i \in DOMAIN s |-> IF IsNull(s[i]) THEN median_hr ELSE s[i]]
    ELSE s

\* `technology_description == tech`: a NaN description equals nothing
TechEq(a, b) == a # "nan" /\ a = b

\* positions of the rows of technology tech, ascending
RECURSIVE TechRows(_, _, _)
TechRows(t, tech, i) ==
    IF i > Len(t) THEN <<>>
    ELSE IF TechEq(t[i].technology_description, tech)
         THEN <<i>> \o TechRows(t, tech, i + 1)
         ELSE TechRows(t, tech, i + 1)

\* mutant: the median taken over the rows of every technology
FillTechHeatRates_AllRows(t, tech) ==
    LET all == [j \in DOMAIN t |-> t[j].heat_rate_mmbtu_mwh]
    IN  [i \in DOMAIN t |->
            IF TechEq(t[i].technology_description, tech)
                   /\ IsNull(t[i].heat_rate_mmbtu_mwh)
            THEN [t[i] EXCEPT !.heat_rate_mmbtu_mwh = Median(all)]
            ELSE t[i]]

\* the body of the loop at lines 2736-2743 for one tech
FillTechHeatRates(t, tech) ==
    LET rows == TechRows(t, tech, 1)
        s == [j \in DOMAIN rows |-> t[rows[j]].heat_rate_mmbtu_mwh]
        filled == fill_na_heat_rates(s)
    IN  [i \in DOMAIN t |->
            IF \E j \in DOMAIN rows : rows[j] = i
            THEN [t[i] EXCEPT !.heat_rate_mmbtu_mwh =
                      filled[CHOOSE j \in DOMAIN rows : rows[j] = i]]
            ELSE t[i]]

\* lines 2735-2743: `for tech in self.units_model["technology_description"]`
\* visits the description of every row, in row order
RECURSIVE FillAllTechHeatRates(_, _)
FillAllTechHeatRates(t, i) ==
    IF i > Len(t) THEN t
    ELSE FillAllTechHeatRates(
             FillTechHeatRates(t, t[i].technology_description), i + 1)

(***************************************************************************)
(* Inputs of the heat-rate stage.  Row i is a generator of plant i, so     *)
(* the official heat rate of its unit and the plant/prime mover heat rate  *)
(* of its index vary independently per row.  The estimation does not       *)
(* depend on row order, so rows are drawn in ascending profile order.      *)
(***************************************************************************)
\* in the order groupby sorts them
Technologies == <<"Conventional Steam Coal", "Natural Gas Fired Combined Cycle">>

\* official unit heat rates: none, 0, 3, 8, 40 MMBtu/MWh
OfficialHeatRates == <<NaN, Num(0), Num(3), Num(8), Num(40)>>

\* plant/prime mover/fuel heat rates: none, 0, 10.5, 40 MMBtu/MWh
PrimeMoverHeatRates == <<NaN, Num(0), <<21, 2>>, Num(40)>>

NumProfiles == Len(Technologies) * Len(OfficialHeatRates) * Len(PrimeMoverHeatRates)

ProfileTech(p) ==
    Technologies[((p - 1) \div (Len(OfficialHeatRates) * Len(PrimeMoverHeatRates))) + 1]

ProfileOfficial(p) ==
    OfficialHeatRates[(((p - 1) \div Len(PrimeMoverHeatRates)) % Len(OfficialHeatRates)) + 1]

ProfilePrimeMover(p) == PrimeMoverHeatRates[((p - 1) % Len(PrimeMoverHeatRates)) + 1]

\* ascending sequences of n numbers of 1..top
RECURSIVE Ascending(_, _)
Ascending(n, top) ==
    IF n = 0 THEN {<<>>}
    ELSE {Append(s, p) : <<s, p>> \in
             {sp \in Ascending(n - 1, top) \X (1..top) :
                 Len(sp[1]) = 0 \/ sp[1][Len(sp[1])] <= sp[2]}}

InitHR ==
    \E ps \in Ascending(MaxUnits, NumProfiles) :
        /\ pc = "gens"
        /\ gens_860_model =
               [i \in 1..MaxUnits |->
                   [plant_id_eia |-> i,
                    unit_id_pudl |-> 1,
                    prime_mover_code |-> "CT",
                    energy_source_code_1 |-> "NG",
                    technology_description |-> ProfileTech(ps[i])]]
        /\ weighted_unit_hr =
               [k \in {<<i, 1>> : i \in {j \in 1..MaxUnits : NotNull(ProfileOfficial(ps[j]))}}
                   |-> ProfileOfficial(ps[k[1]])]
        /\ prime_mover_hr_map =
               [k \in {<<i, "CT", "NG">> :
                          i \in {j \in 1..MaxUnits : NotNull(ProfilePrimeMover(ps[j]))}}
                   |-> ProfilePrimeMover(ps[k[1]])]
        /\ units_model = <<>>
        /\ error = ""
        /\ ReconIdle
        /\ ClusterIdle
        /\ OtherIdle

MergeUnitHR ==
    /\ pc = "gens"
    /\ units_model' = MergeUnitHeatRates(gens_860_model, weighted_unit_hr)
    /\ pc' = "merged"
    /\ UNCHANGED <<error, reconVars, hrVars, otherVars, clusterVars>>

AssignPMHR ==
    /\ pc = "merged"
    /\ units_model' = AssignPrimeMoverHeatRates(units_model, prime_mover_hr_map)
    /\ pc' = "assigned"
    /\ UNCHANGED <<error, reconVars, hrVars, otherVars, clusterVars>>

ReassignHighHR ==
    /\ pc = "assigned"
    /\ units_model' = ReassignHighHeatRates(units_model, prime_mover_hr_map)
    /\ pc' = "reassigned"
    /\ UNCHANGED <<error, reconVars, hrVars, otherVars, clusterVars>>

BandHR ==
    /\ pc = "reassigned"
    /\ units_model' = BandHeatRates(units_model)
    /\ pc' = "banded"
    /\ UNCHANGED <<error, reconVars, hrVars, otherVars, clusterVars>>

FillHR ==
    /\ pc = "banded"
    /\ units_model' = FillAllTechHeatRates(units_model, 1)
    /\ pc' = "filled"
    /\ UNCHANGED <<error, reconVars, hrVars, otherVars, clusterVars>>

NextHR == MergeUnitHR \/ AssignPMHR \/ ReassignHighHR \/ BandHR \/ FillHR

SpecHR == InitHR /\ [][NextHR]_vars

(***************************************************************************)
(* Properties of heat-rate estimation.                                     *)
(***************************************************************************)
InBand(h) == RLe(Num(HR_MIN), h) /\ RLe(h, Num(HR_MAX))

\* the inputs of row i: the official heat rate of its unit and the
\* plant/prime mover/fuel heat rate of its index
OfficialOf(i) ==
    MapGet(weighted_unit_hr,
           <<gens_860_model[i].plant_id_eia, gens_860_model[i].unit_id_pudl>>)

PrimeMoverOf(i) == MapGet(prime_mover_hr_map, Idx(gens_860_model[i]))

\* the table as it stands after lines 2709-2715 and after lines 2725-2732
AssignedTable ==
    AssignPrimeMoverHeatRates(
        MergeUnitHeatRates(gens_860_model, weighted_unit_hr), prime_mover_hr_map)

BandedTable == BandHeatRates(ReassignHighHeatRates(AssignedTable, prime_mover_hr_map))

SameTech(t, i) ==
    {j \in DOMAIN t : t[j].technology_description = t[i].technology_description}

\* the non-null heat rates of the technology of row i in table t, as a bag
\* held by row position
TechValues(t, i) == {j \in SameTech(t, i) : NotNull(t[j].heat_rate_mmbtu_mwh)}

\* v is the element of 0-based rank k among the values of rows J of table t
HasRank(t, J, v, k) ==
    /\ Cardinality({j \in J : RLt(t[j].heat_rate_mmbtu_mwh, v)}) <= k
    /\ Cardinality({j \in J : RLe(t[j].heat_rate_mmbtu_mwh, v)}) >= k + 1

\* m is the median of the values of rows J of table t (NaN when J is empty)
IsMedianOf(t, J, m) ==
    IF J = {} THEN IsNull(m)
    ELSE \E lo \in J, hi \in J :
            /\ HasRank(t, J, t[lo].heat_rate_mmbtu_mwh, (Cardinality(J) - 1) \div 2)
            /\ HasRank(t, J, t[hi].heat_rate_mmbtu_mwh, Cardinality(J) \div 2)
            /\ RMul(Num(2), m) =
                   RAdd(t[lo].heat_rate_mmbtu_mwh, t[hi].heat_rate_mmbtu_mwh)

\* C4: after all tiers of heat-rate estimation every unit's heat rate is
\* missing, exactly 0, or within [5, 35]
C4_FinalHeatRatesInBand ==
    pc = "filled" =>
        \A i \in DOMAIN units_model :
            LET h == units_model[i].heat_rate_mmbtu_mwh
            IN  IsNull(h) \/ h = Num(0) \/ InBand(h)

\* C5: a unit whose official heat rate is non-zero and outside [5, 35] ends
\* with the plant/prime mover/fuel heat rate when that one is within [5, 35]
\* and with the technology median otherwise, alike for too high and too low
C5_OutOfBandOfficialTakesFallback ==
    pc = "filled" =>
        \A i \in DOMAIN units_model :
            (NotNull(OfficialOf(i)) /\ OfficialOf(i) # Num(0) /\ ~InBand(OfficialOf(i)))
            => IF InBand(PrimeMoverOf(i))
               THEN units_model[i].heat_rate_mmbtu_mwh = PrimeMoverOf(i)
               ELSE IsMedianOf(BandedTable, TechValues(BandedTable, i),
                               units_model[i].heat_rate_mmbtu_mwh)

\* C6: a unit without official heat rate whose plant/prime mover/fuel heat
\* rate h is within [5, 35] ends with heat rate h
C6_PrimeMoverHeatRateKept ==
    pc = "filled" =>
        \A i \in DOMAIN units_model :
            (IsNull(OfficialOf(i)) /\ InBand(PrimeMoverOf(i)))
            => units_model[i].heat_rate_mmbtu_mwh = PrimeMoverOf(i)

\* such a unit, in a technology whose median is another value
C6_Witness ==
    /\ pc = "filled"
    /\ \E i \in DOMAIN units_model :
          /\ IsNull(OfficialOf(i))
          /\ InBand(PrimeMoverOf(i))
          /\ units_model[i].heat_rate_mmbtu_mwh = PrimeMoverOf(i)
          /\ \E m \in {Num(0), Num(8)} :
                /\ IsMedianOf(units_model, TechValues(units_model, i), m)
                /\ m # PrimeMoverOf(i)

\* C7: a unit still missing a heat rate after banding ends with the median of
\* the non-null heat rates of its technology, and stays missing only if there
\* is none; a unit with a heat rate after banding keeps it
C7_MissingTakesTechMedian ==
    pc = "filled" =>
        \A i \in DOMAIN units_model :
            LET b == BandedTable[i].heat_rate_mmbtu_mwh
                h == units_model[i].heat_rate_mmbtu_mwh
            IN  /\ NotNull(b) => h = b
                /\ IsNull(b) => IsMedianOf(BandedTable, TechValues(BandedTable, i), h)
                /\ IsNull(h) => TechValues(BandedTable, i) = {}

\* a unit with neither heat rate is filled in a technology that also holds
\* another technology's different values, and a unit with a valid one is kept
C7_Witness ==
    /\ pc = "filled"
    /\ \E i, j, k \in DOMAIN units_model :
          /\ IsNull(OfficialOf(i)) /\ IsNull(PrimeMoverOf(i))
          /\ j \in SameTech(units_model, i)
          /\ k \notin SameTech(units_model, i)
          /\ InBand(BandedTable[j].heat_rate_mmbtu_mwh)
          /\ units_model[i].heat_rate_mmbtu_mwh = BandedTable[j].heat_rate_mmbtu_mwh
          /\ NotNull(BandedTable[k].heat_rate_mmbtu_mwh)
          /\ BandedTable[k].heat_rate_mmbtu_mwh # BandedTable[j].heat_rate_mmbtu_mwh

\* C8: a heat rate that is 0 after the official and plant/prime mover
\* lookups stays 0 in every later step
C8_ZeroHeatRateKept ==
    [][\A i \in DOMAIN units_model :
          (pc \in {"assigned", "reassigned", "banded"}
              /\ units_model[i].heat_rate_mmbtu_mwh = Num(0))
          => units_model'[i].heat_rate_mmbtu_mwh = Num(0)]_vars

\* a unit at 0 since the lookups, next to a unit of its technology that the
\* median fill changed to a non-zero value
C8_Witness ==
    /\ pc = "filled"
    /\ \E i, j \in DOMAIN units_model :
          /\ AssignedTable[i].heat_rate_mmbtu_mwh = Num(0)
          /\ units_model[i].heat_rate_mmbtu_mwh = Num(0)
          /\ j \in SameTech(units_model, i)
          /\ IsNull(BandedTable[j].heat_rate_mmbtu_mwh)
          /\ RGt(units_model[j].heat_rate_mmbtu_mwh, Num(0))

(***************************************************************************)
(* Removal of canceled and retired generators, lines 820-899               *)
(***************************************************************************)
AddCol(r, name, v) == [c \in DOMAIN r \cup {name} |-> IF c = name THEN v ELSE r[c]]

DropCol(r, name) == [c \in DOMAIN r \ {name} |-> r[c]]

\* create_plant_gen_id: str(plant_id_eia) + "_" + str(generator_id); the
\* generator id is a string already
create_plant_gen_id(t) ==
    [i \in DOMAIN t |->
        AddCol(t[i], "plant_gen_id",
               ToString(t[i].plant_id_eia) \o "_" \o t[i].generator_id)]

\* df["plant_gen_id"].isin(sheet["plant_gen_id"]), as the set of positions
IsInSheet(t, sheet) ==
    {i \in DOMAIN t : \E j \in DOMAIN sheet : sheet[j].plant_gen_id = t[i].plant_gen_id}

\* lines 859 and 890: the rows found in the sheet
MatchedRows(t, sheet) ==
    Loc(create_plant_gen_id(t), IsInSheet(create_plant_gen_id(t), create_plant_gen_id(sheet)))

\* mutant: the anti-join on the plant id alone
UnmatchedRows_ByPlant(t, sheet) ==
    LET kept == Loc(t, {i \in DOMAIN t :
                           \A j \in DOMAIN sheet : sheet[j].plant_id_eia # t[i].plant_id_eia})
    IN  [i \in DOMAIN kept |-> kept[i]]

\* lines 861-863 and 892-894: the rows not found in the sheet, without the key
UnmatchedRows(t, sheet) ==
    LET keyed == create_plant_gen_id(t)
        kept == Loc(keyed, DOMAIN keyed \ IsInSheet(keyed, create_plant_gen_id(sheet)))
    IN  [i \in DOMAIN kept |-> DropCol(kept[i], "plant_gen_id")]

\* lines 865-866 and 896-897
RemovalAssertionHolds(t, matched, unmatched) ==
    matched # <<>> => Len(t) = Len(matched) + Len(unmatched)

(***************************************************************************)
(* Inputs of the removal steps: generator rows in ascending profile order  *)
(* (several rows may share plant and generator id, as the snapshots of     *)
(* several data years do), and amendment sheets of at most MaxAmend rows.  *)
(***************************************************************************)
PlantIds == <<1, 2>>

GeneratorIds == <<"1", "GT2">>

Capacities == <<Num(10), Num(25)>>

NumGenProfiles == Len(PlantIds) * Len(GeneratorIds) * Len(Capacities)

GenPlant(p) == PlantIds[((p - 1) \div (Len(GeneratorIds) * Len(Capacities))) + 1]

GenGenerator(p) == GeneratorIds[(((p - 1) \div Len(Capacities)) % Len(GeneratorIds)) + 1]

GenCapacity(p) == Capacities[((p - 1) % Len(Capacities)) + 1]

\* an amendment sheet: rows of (plant, generator) keys
Sheets ==
    UNION {{[j \in 1..n |-> [plant_id_eia |-> PlantIds[ks[j][1]],
                             generator_id |-> GeneratorIds[ks[j][2]]]] :
               ks \in [1..n -> (DOMAIN PlantIds) \X (DOMAIN GeneratorIds)]} :
           n \in 0..MaxAmend}

InitRemove ==
    \E ps \in Ascending(MaxGens, NumGenProfiles), c \in Sheets, r \in Sheets :
        /\ pc = "supplemented"
        /\ df = [i \in 1..MaxGens |->
                    [row |-> i,
                     plant_id_eia |-> GenPlant(ps[i]),
                     generator_id |-> GenGenerator(ps[i]),
                     capacity_mw |-> GenCapacity(ps[i])]]
        /\ canceled_860m = c
        /\ retired_860m = r
        /\ canceled = <<>>
        /\ retired_rows = <<>>
        /\ error = ""
        /\ units_model = <<>>
        /\ HRIdle
        /\ ClusterIdle
        /\ OtherIdle

\* remove_canceled_860m, piped at line 2654
RemoveCanceled ==
    /\ pc = "supplemented"
    /\ canceled' = MatchedRows(df, canceled_860m)
    /\ IF RemovalAssertionHolds(df, MatchedRows(df, canceled_860m),
                                UnmatchedRows(df, canceled_860m))
       THEN /\ df' = UnmatchedRows(df, canceled_860m)
            /\ pc' = "canceled_removed"
            /\ error' = error
       ELSE /\ df' = df
            /\ pc' = "failed"
            /\ error' = "AssertionError"
    /\ UNCHANGED <<canceled_860m, retired_860m, retired_rows, hrVars, otherVars, units_model,
                   clusterVars>>

\* remove_retired_860m, piped at line 2655
RemoveRetired ==
    /\ pc = "canceled_removed"
    /\ retired_rows' = MatchedRows(df, retired_860m)
    /\ IF RemovalAssertionHolds(df, MatchedRows(df, retired_860m),
                                UnmatchedRows(df, retired_860m))
       THEN /\ df' = UnmatchedRows(df, retired_860m)
            /\ pc' = "retired_removed"
            /\ error' = error
       ELSE /\ df' = df
            /\ pc' = "failed"
            /\ error' = "AssertionError"
    /\ UNCHANGED <<canceled_860m, retired_860m, canceled, hrVars, otherVars, units_model,
                   clusterVars>>

NextRemove == RemoveCanceled \/ RemoveRetired

SpecRemove == InitRemove /\ [][NextRemove]_vars

(***************************************************************************)
(* Properties of the removal steps.                                        *)
(***************************************************************************)
\* Series.sum(): NaN skipped
CapacitySum(t) ==
    RSumSeq(DropNa([i \in DOMAIN t |-> t[i].capacity_mw]), 1)

\* kept and removed split the rows of input: every input row is, with its
\* capacity, in exactly one of them, and they hold no other row
Partitions(input, kept, removed) ==
    /\ Len(input) = Len(kept) + Len(removed)
    /\ CapacitySum(input) = RAdd(CapacitySum(kept), CapacitySum(removed))
    /\ \A i \in DOMAIN input :
          Cardinality({j \in DOMAIN kept :
                          /\ kept[j].row = input[i].row
                          /\ kept[j].capacity_mw = input[i].capacity_mw})
          + Cardinality({j \in DOMAIN removed :
                            /\ removed[j].row = input[i].row
                            /\ removed[j].capacity_mw = input[i].capacity_mw}) = 1

\* C3: remove_canceled_860m and remove_retired_860m split their input rows
\* into the returned (kept) rows and the removed rows; row count and capacity
\* sum of the input equal those of kept plus removed
C3_RemovalPartitionsInput ==
    [][/\ pc = "supplemented" => Partitions(df, df', canceled')
       /\ pc = "canceled_removed" => Partitions(df, df', retired_rows')]_vars

\* both steps ran, each removed rows and rows were kept
C3_Witness ==
    /\ pc = "retired_removed"
    /\ canceled # <<>>
    /\ retired_rows # <<>>
    /\ df # <<>>
    /\ Len(canceled) + Len(retired_rows) + Len(df) = MaxGens

(***************************************************************************)
(* Clustering: group_units, calc_unit_cluster_values and lines 2819-2948   *)
(* of create_region_technology_clusters.  The heat-rate inter-quartile     *)
(* range and the standard deviations of calc_unit_cluster_values are       *)
(* diagnostics no other column reads; they are left out.                   *)
(***************************************************************************)
Min(a, b) == IF a < b THEN a ELSE b

\* a column of a table as a Series
Col(t, c) == [i \in DOMAIN t |-> t[i][c]]

\* mutant: the first value in place of the sum
RSum_First(s) == IF DropNa(s) = <<>> THEN Num(0) ELSE DropNa(s)[1]

\* Series.sum() and Series.mean(): NaN skipped
RSum(s) == RSumSeq(DropNa(s), 1)

RMean(s) == IF DropNa(s) = <<>> THEN NaN ELSE RDiv(RSum(s), Num(Len(DropNa(s))))

\* groupby sorts its keys; a key is (plant_id_eia, unit_id_pudl)
KeyLess(a, b) == a[1] < b[1] \/ (a[1] = b[1] /\ a[2] < b[2])

RECURSIVE SortKeys(_)
SortKeys(S) ==
    IF S = {} THEN <<>>
    ELSE LET m == CHOOSE x \in S : \A y \in S \ {x} : KeyLess(x, y)
         IN  <<m>> \o SortKeys(S \ {m})

RECURSIVE SortInts(_)
SortInts(S) ==
    IF S = {} THEN <<>>
    ELSE LET m == CHOOSE x \in S : \A y \in S : x <= y
         IN  <<m>> \o SortInts(S \ {m})

UnitKey(r) == <<r.plant_id_eia, r.unit_id_pudl>>

ValueCols ==
    {"capacity_mw", "minimum_load_mw", "heat_rate_mmbtu_mwh",
     "Fixed_OM_Cost_per_MWyr", "Var_OM_Cost_per_MWh"}

\* group_units: one row per (plant, unit) with summed capacity and minimum
\* load and mean heat rate and O&M; nulls filled with the column mean
group_units(d) ==
    LET keys == SortKeys({UnitKey(d[i]) : i \in DOMAIN d})
        rowsOf(k) == Loc(d, {i \in DOMAIN d : UnitKey(d[i]) = k})
        grouped_units ==
            [j \in DOMAIN keys |->
                [plant_id_eia |-> keys[j][1],
                 unit_id_pudl |-> keys[j][2],
                 capacity_mw |-> RSum(Col(rowsOf(keys[j]), "capacity_mw")),
                 minimum_load_mw |-> RSum(Col(rowsOf(keys[j]), "minimum_load_mw")),
                 heat_rate_mmbtu_mwh |->
                     RMean(Col(rowsOf(keys[j]), "heat_rate_mmbtu_mwh")),
                 Fixed_OM_Cost_per_MWyr |->
                     RMean(Col(rowsOf(keys[j]), "Fixed_OM_Cost_per_MWyr")),
                 Var_OM_Cost_per_MWh |->
                     RMean(Col(rowsOf(keys[j]), "Var_OM_Cost_per_MWh"))]]
    IN  [j \in DOMAIN grouped_units |->
            [c \in DOMAIN grouped_units[j] |->
                IF c \in ValueCols /\ IsNull(grouped_units[j][c])
                THEN RMean(Col(grouped_units, c))
                ELSE grouped_units[j][c]]]

\* mutant: the plain mean, every unit-group counting the same
WeightedMean_Unweighted(x, w) == RMean(x)

\* wm: np.average(x, weights=capacity)
WeightedMean(x, w) ==
    RDiv(RSumSeq([i \in DOMAIN x |-> RMul(x[i], w[i])], 1), RSumSeq(w, 1))

\* calc_unit_cluster_values: one row per cluster label, ascending
calc_unit_cluster_values(g, technology) ==
    LET d == IF \E i \in DOMAIN g : IsNull(g[i].heat_rate_mmbtu_mwh)
             THEN Loc(g, {i \in DOMAIN g : NotNull(g[i].heat_rate_mmbtu_mwh)})
             ELSE g
        labels == SortInts({d[i].cluster : i \in DOMAIN d})
        rowsOf(l) == Loc(d, {i \in DOMAIN d : d[i].cluster = l})
        w(l) == Col(rowsOf(l), "capacity_mw")
    IN  [j \in DOMAIN labels |->
            [cluster |-> labels[j],
             capacity_mw |-> RMean(Col(rowsOf(labels[j]), "capacity_mw")),
             minimum_load_mw |-> RMean(Col(rowsOf(labels[j]), "minimum_load_mw")),
             heat_rate_mmbtu_mwh |->
                 WeightedMean(Col(rowsOf(labels[j]), "heat_rate_mmbtu_mwh"), w(labels[j])),
             Fixed_OM_Cost_per_MWyr |->
                 WeightedMean(Col(rowsOf(labels[j]), "Fixed_OM_Cost_per_MWyr"), w(labels[j])),
             Var_OM_Cost_per_MWh |->
                 WeightedMean(Col(rowsOf(labels[j]), "Var_OM_Cost_per_MWh"), w(labels[j])),
             Min_Power |->
                 RDiv(RMean(Col(rowsOf(labels[j]), "minimum_load_mw")),
                      RMean(Col(rowsOf(labels[j]), "capacity_mw"))),
             num_units |-> Len(rowsOf(labels[j])),
             technology |-> technology]]

\* lines 2924-2930: the region and the member lists of every cluster row
AddMembers(values, g, region) ==
    [j \in DOMAIN values |->
        LET members == Loc(g, {i \in DOMAIN g : g[i].cluster = values[j].cluster})
        IN  [c \in DOMAIN values[j] \cup {"region", "plant_id_eia", "unit_id_pudl"} |->
                CASE c = "region" -> region
                  [] c = "plant_id_eia" -> Col(members, "plant_id_eia")
                  [] c = "unit_id_pudl" -> Col(members, "unit_id_pudl")
                  [] OTHER -> values[j][c]]]

\* preprocessing.StandardScaler().fit_transform(X): every column is centred
\* on its mean and divided by its standard deviation (by 1 when that is 0).
\* The division is by one positive number per column and is left out: the
\* model of KMeans reads only which rows coincide and which are null.
StandardScale(X) ==
    [i \in DOMAIN X |->
        [c \in DOMAIN X[i] |->
            RAdd(X[i][c], RMul(Num(-1), RMean([j \in DOMAIN X |-> X[j][c]])))]]

\* cluster.KMeans(n_clusters=k, random_state=6).fit(X) raises ValueError on
\* a NaN in X and when X has fewer rows than k
KMeansRaises(X, k) ==
    \/ \E i \in DOMAIN X : \E c \in DOMAIN X[i] : IsNull(X[i][c])
    \/ Len(X) < k

\* the labels_ KMeans can return: every row is labelled with its nearest
\* centre, so coinciding rows share a label; no cluster is left empty unless
\* X has fewer distinct rows than k, and then as many labels are used as
\* there are distinct rows (sklearn warns "Number of distinct clusters found
\* smaller than n_clusters").  Which of these labelings the fixed seed gives
\* is not modelled.
KMeansLabels(X, k) ==
    {l \in [DOMAIN X -> 0..(k - 1)] :
        /\ \A i, j \in DOMAIN X : X[i] = X[j] => l[i] = l[j]
        /\ Cardinality(Range(l)) = Min(k, Cardinality(Range(X)))}

\* mutant: no fixed seed, every call of the pipeline seeds its own
random_state_PerRun == run

\* lines 2882 and 2911: KMeans(..., random_state=6)
random_state == 6

\* a seeded fit is a function of its data, k and seed: it returns what it
\* returned before for them, and some possible labelling the first time
Fit(X, k, seed) ==
    IF <<X, k, seed>> \in DOMAIN fitted
    THEN {fitted[<<X, k, seed>>]}
    ELSE KMeansLabels(X, k)

Fitted(X, k, seed, labels) ==
    [key \in DOMAIN fitted \cup {<<X, k, seed>>} |->
        IF key = <<X, k, seed>> THEN labels ELSE fitted[key]]

\* lines 2865-2870 and 2885
ClusterCols(g) ==
    [i \in DOMAIN g |-> <<g[i].Fixed_OM_Cost_per_MWyr, g[i].heat_rate_mmbtu_mwh>>]

\* line 2912: every column of grouped
AllCols(g) ==
    [i \in DOMAIN g |->
        <<g[i].capacity_mw, g[i].minimum_load_mw, g[i].heat_rate_mmbtu_mwh,
          g[i].Fixed_OM_Cost_per_MWyr, g[i].Var_OM_Cost_per_MWh>>]

\* grouped["cluster"] = clusters.labels_ + 1
WithCluster(g, labels) ==
    [i \in DOMAIN g |-> AddCol(g[i], "cluster", labels[i] + 1)]

\* lines 2821-2830: the settings' counts per region, then the regional
\* overrides of alt_num_clusters
BuildNumClusters(st) ==
    [r \in Range(st.model_regions) |->
        [t \in DOMAIN st.num_clusters |->
            IF r \in DOMAIN st.alt_num_clusters /\ t \in DOMAIN st.alt_num_clusters[r]
            THEN st.alt_num_clusters[r][t]
            ELSE st.num_clusters[t]]]

\* mutant: only the units retiring before the model year
RetiredUnits_Before(t, st) ==
    Loc(t, {i \in DOMAIN t : RLt(t[i].retirement_year, Num(st.model_year))})

\* lines 2838-2840: ~(retirement_year > model_year)
RetiredUnits(t, st) ==
    Loc(t, {i \in DOMAIN t : ~RGt(t[i].retirement_year, Num(st.model_year))})

\* lines 2832-2836: technology in techs and ~(retirement_year <= model_year)
OperatingUnits(t, st) ==
    Loc(t, {i \in DOMAIN t :
               /\ t[i].technology \in DOMAIN st.num_clusters
               /\ ~RLe(t[i].retirement_year, Num(st.model_year))})

GroupRows(t, key) ==
    Loc(t, {i \in DOMAIN t : t[i].model_region = key[1] /\ t[i].technology = key[2]})

\* the keys of groupby(["model_region", "technology"]), sorted; the model has
\* one region, so the keys sort by technology
GroupKeys(t, st) ==
    LET present == {<<t[i].model_region, t[i].technology>> : i \in DOMAIN t}
    IN  SelectSeq([j \in DOMAIN Technologies |-> <<st.model_regions[1], Technologies[j]>>],
                  LAMBDA k : k \in present)

\* lines 2895-2896
OwnerConfigured(st, region, tech) ==
    /\ region \in DOMAIN st.alt_cluster_method
    /\ tech \in st.alt_cluster_method[region].technology_description

\* cluster_by_owner (powergenome.cluster_method): the units of the group,
\* one row per unit as group_units gives them, each with a cluster label;
\* the clusters are some partition of the units, numbered from 1 in order of
\* first appearance
cluster_by_owner(d) ==
    LET g == group_units(d)
    IN  {WithCluster(g, [i \in DOMAIN g |-> l[i] - 1]) :
            l \in {m \in [DOMAIN g -> 1..Len(g)] :
                      \A i \in DOMAIN g :
                          m[i] = 1 \/ \E j \in 1..(i - 1) : m[j] = m[i] - 1}}

RECURSIVE Concat(_)
Concat(list) == IF list = <<>> THEN <<>> ELSE Head(list) \o Concat(Tail(list))

\* the tables the clustering starts from: generators of two technologies in
\* one region.  Generators of one plant belong to one unit.
UnitKinds ==
    <<[capacity_mw |-> Num(25), minimum_load_mw |-> Num(10),
       heat_rate_mmbtu_mwh |-> Num(8),
       Fixed_OM_Cost_per_MWyr |-> Num(20), Var_OM_Cost_per_MWh |-> Num(2)],
      [capacity_mw |-> Num(10), minimum_load_mw |-> Num(5),
       heat_rate_mmbtu_mwh |-> Num(10),
       Fixed_OM_Cost_per_MWyr |-> Num(20), Var_OM_Cost_per_MWh |-> Num(3)]>>

RetirementYears == <<NaN, Num(2030), Num(2040)>>

UnitRow(plant, kind, ret, tech) ==
    [plant_id_eia |-> plant,
     unit_id_pudl |-> 1,
     technology |-> tech,
     model_region |-> "R1",
     capacity_mw |-> UnitKinds[kind].capacity_mw,
     minimum_load_mw |-> UnitKinds[kind].minimum_load_mw,
     heat_rate_mmbtu_mwh |-> UnitKinds[kind].heat_rate_mmbtu_mwh,
     Fixed_OM_Cost_per_MWyr |-> UnitKinds[kind].Fixed_OM_Cost_per_MWyr,
     Var_OM_Cost_per_MWh |-> UnitKinds[kind].Var_OM_Cost_per_MWh,
     retirement_year |-> RetirementYears[ret]]

\* plants 1 to 3 burn gas and have a retirement year, plant 4 burns coal
UnitProfiles ==
    [p \in 1..12 |->
        UnitRow(((p - 1) \div 4) + 1,
                (((p - 1) \div 2) % 2) + 1,
                ((p - 1) % 2) + 2,
                Technologies[2])]
    \o [p \in 1..Len(RetirementYears) |-> UnitRow(4, 1, p, Technologies[1])]

NoDict == [x \in {} |-> 0]

AltNumClusters == {NoDict, [r \in {"R1"} |-> [t \in {Technologies[1]} |-> 0]]}

AltClusterMethods ==
    {NoDict} \cup
    {[r \in {"R1"} |-> [technology_description |-> {t}]] : t \in Range(Technologies)}

InitCluster ==
    \E ps \in Ascending(MaxRows, Len(UnitProfiles)) :
    \E k \in 0..MaxK :
    \E anc \in AltNumClusters :
    \E acm \in AltClusterMethods :
        /\ pc = "om_added"
        /\ units_model = [i \in 1..MaxRows |-> UnitProfiles[ps[i]]]
        /\ settings =
               [model_year |-> 2030,
                model_regions |-> <<"R1">>,
                num_clusters |->
                    [t \in Range(Technologies) |-> IF t = Technologies[2] THEN k ELSE 1],
                alt_num_clusters |-> anc,
                alt_cluster_method |-> acm]
        /\ num_clusters = <<>>
        /\ region_tech_grouped = <<>>
        /\ todo = <<>>
        /\ retired = <<>>
        /\ unit_list = <<>>
        /\ cluster_list = <<>>
        /\ results = <<>>
        /\ log = <<>>
        /\ error = ""
        /\ fitted = <<>>
        /\ ReconIdle
        /\ HRIdle
        /\ OtherIdle

\* lines 2819-2854
PrepareClusters ==
    /\ pc = "om_added"
    /\ pc' = "clustering"
    /\ num_clusters' = BuildNumClusters(settings)
    /\ region_tech_grouped' = OperatingUnits(units_model, settings)
    /\ retired' = RetiredUnits(units_model, settings)
    /\ todo' = GroupKeys(region_tech_grouped', settings)
    /\ unit_list' = <<>>
    /\ cluster_list' = <<>>
    /\ UNCHANGED <<error, reconVars, hrVars, otherVars, units_model, settings, results,
                   log, fitted>>

\* the group the loop of line 2856 is at
CurDf == GroupRows(region_tech_grouped, Head(todo))

CurK == num_clusters[Head(todo)[1]][Head(todo)[2]]

InLoop == pc = "clustering" /\ todo # <<>>

NullHeatRateWarning(g) ==
    IF \E i \in DOMAIN g : IsNull(g[i].heat_rate_mmbtu_mwh)
    THEN <<[level |-> "WARNING", message |-> "null heat rates dropped",
            technology |-> Head(todo)[2]]>>
    ELSE <<>>

\* line 2922
WritesClusters(k) == k # 0

\* lines 2918-2932: the units are kept; the clusters are written unless 0
\* clusters are specified
Emit(grouped, k, said) ==
    /\ unit_list' = Append(unit_list, grouped)
    /\ IF WritesClusters(k)
       THEN /\ cluster_list' =
                   Append(cluster_list,
                          AddMembers(calc_unit_cluster_values(grouped, Head(todo)[2]),
                                     grouped, Head(todo)[1]))
            /\ log' = log \o said \o NullHeatRateWarning(grouped)
       ELSE /\ cluster_list' = cluster_list
            /\ log' = log \o said
    /\ todo' = Tail(todo)
    /\ UNCHANGED <<pc, error>>

Raise(said) ==
    /\ pc' = "failed"
    /\ error' = "ValueError"
    /\ log' = log \o said
    /\ UNCHANGED <<todo, unit_list, cluster_list, fitted>>

\* lines 2863-2891: no alternative method configured, k > 0
ClusterKMeans ==
    /\ InLoop
    /\ DOMAIN settings.alt_cluster_method = {}
    /\ CurK > 0
    /\ LET grouped == group_units(CurDf)
           k == IF Len(grouped) < CurK THEN Len(grouped) ELSE CurK
           said == IF Len(grouped) < CurK
                   THEN <<[level |-> "INFO", message |-> "clusters set to units",
                           region |-> Head(todo)[1], technology |-> Head(todo)[2],
                           units |-> Len(grouped), clusters |-> CurK]>>
                   ELSE <<>>
           X == StandardScale(ClusterCols(grouped))
       IN  /\ num_clusters' =
                  [num_clusters EXCEPT ![Head(todo)[1]][Head(todo)[2]] = k]
           /\ IF KMeansRaises(X, k)
              THEN Raise(said)
              ELSE \E labels \in Fit(X, k, random_state) :
                       /\ Emit(WithCluster(grouped, labels), k, said)
                       /\ fitted' = Fitted(X, k, random_state, labels)
    /\ UNCHANGED <<reconVars, hrVars, otherVars, units_model, settings, region_tech_grouped,
                   retired, results>>

\* lines 2895-2907: the pair is configured for clustering by owner
ClusterByOwner ==
    /\ InLoop
    /\ OwnerConfigured(settings, Head(todo)[1], Head(todo)[2])
    /\ \E grouped \in cluster_by_owner(CurDf) : Emit(grouped, CurK, <<>>)
    /\ UNCHANGED <<reconVars, hrVars, otherVars, units_model, settings, num_clusters,
                   region_tech_grouped, retired, results, fitted>>

\* lines 2909-2916: another pair is configured by owner, k > 0; k-means on
\* every column, the number of clusters as configured
ClusterKMeansAllColumns ==
    /\ InLoop
    /\ DOMAIN settings.alt_cluster_method # {}
    /\ ~OwnerConfigured(settings, Head(todo)[1], Head(todo)[2])
    /\ CurK > 0
    /\ LET grouped == group_units(CurDf)
           X == StandardScale(AllCols(grouped))
       IN  IF KMeansRaises(X, CurK)
           THEN Raise(<<>>)
           ELSE \E labels \in Fit(X, CurK, random_state) :
                    /\ Emit(WithCluster(grouped, labels), CurK, <<>>)
                    /\ fitted' = Fitted(X, CurK, random_state, labels)
    /\ UNCHANGED <<reconVars, hrVars, otherVars, units_model, settings, num_clusters,
                   region_tech_grouped, retired, results>>

\* neither branch clusters: k = 0 and the pair is not configured by owner
ClusterNothing ==
    /\ InLoop
    /\ ~OwnerConfigured(settings, Head(todo)[1], Head(todo)[2])
    /\ CurK = 0
    /\ Emit(group_units(CurDf), CurK, <<>>)
    /\ UNCHANGED <<reconVars, hrVars, otherVars, units_model, settings, num_clusters,
                   region_tech_grouped, retired, results, fitted>>

\* lines 2935-2948: pd.concat raises ValueError on an empty list
ConcatResults ==
    /\ pc = "clustering"
    /\ todo = <<>>
    /\ IF unit_list = <<>> \/ cluster_list = <<>>
       THEN pc' = "failed" /\ error' = "ValueError" /\ results' = results
       ELSE pc' = "clustered" /\ error' = error /\ results' = Concat(cluster_list)
    /\ UNCHANGED <<reconVars, hrVars, otherVars, units_model, settings, num_clusters,
                   region_tech_grouped, todo, retired, unit_list, cluster_list, log,
                   fitted>>

NextCluster ==
    \/ PrepareClusters
    \/ ClusterKMeans
    \/ ClusterByOwner
    \/ ClusterKMeansAllColumns
    \/ ClusterNothing
    \/ ConcatResults

SpecCluster == InitCluster /\ [][NextCluster]_vars

(***************************************************************************)
(* Properties of the clustering                                            *)
(***************************************************************************)
\* the groups of the loop, in its order; unit_list[j] belongs to Keys[j]
Keys == GroupKeys(region_tech_grouped, settings)

Started == pc \in {"clustering", "clustered", "failed"}

\* the number of clusters configured for a pair, regional override included
Configured(key) == BuildNumClusters(settings)[key[1]][key[2]]

UnitGroups(key) == group_units(GroupRows(region_tech_grouped, key))

ClusterRows(table, key) ==
    SelectSeq(table, LAMBDA r : r.region = key[1] /\ r.technology = key[2])

ByKMeans(key) == ~OwnerConfigured(settings, key[1], key[2])

SumUnits(rows) == RSumSeq([i \in DOMAIN rows |-> Num(rows[i].num_units)], 1)

Labelled(g) == \A i \in DOMAIN g : "cluster" \in DOMAIN g[i]

\* C1: in the finished output, every group clustered by k-means with a
\* configured count k, 1 <= k <= n, has exactly k clusters, each of at least
\* one unit-group, and their num_units sum to n, the number of unit-groups.
C1_ExactlyKClusters ==
    pc = "clustered" =>
        \A j \in DOMAIN Keys :
            LET k == Configured(Keys[j])
                n == Len(UnitGroups(Keys[j]))
                rows == ClusterRows(results, Keys[j])
            IN  (ByKMeans(Keys[j]) /\ 1 <= k /\ k <= n) =>
                    /\ Len(rows) = k
                    /\ \A i \in DOMAIN rows : rows[i].num_units >= 1
                    /\ SumUnits(rows) = Num(n)

\* C2: a group with more configured clusters than unit-groups (k > n) is
\* clustered with the count reduced to n, every cluster holds exactly one
\* unit-group, and the reduction is logged as a warning.
C2_ReducedToOneUnitPerCluster ==
    Started =>
        /\ \A j \in DOMAIN unit_list :
               LET k == Configured(Keys[j])
                   n == Len(UnitGroups(Keys[j]))
                   rows == ClusterRows(Concat(cluster_list), Keys[j])
               IN  (ByKMeans(Keys[j]) /\ k > n) =>
                       /\ num_clusters[Keys[j][1]][Keys[j][2]] = n
                       /\ Len(rows) = n
                       /\ \A i \in DOMAIN rows : rows[i].num_units = 1
                       /\ \E i \in DOMAIN log :
                              /\ log[i].level = "WARNING"
                              /\ log[i].technology = Keys[j][2]
        /\ (pc = "failed" /\ todo # <<>>) =>
               ~(ByKMeans(Head(todo)) /\ Configured(Head(todo)) > Len(UnitGroups(Head(todo))))

\* C9: a pair with 0 clusters has no row in the cluster output, and every
\* unit of it whose retirement year is at or before the model year is in
\* the retired set.
C9_ZeroClustersAbsentButRetired ==
    Started =>
        \A r \in Range(settings.model_regions) :
        \A t \in DOMAIN settings.num_clusters :
            Configured(<<r, t>>) = 0 =>
                /\ ClusterRows(Concat(cluster_list), <<r, t>>) = <<>>
                /\ ClusterRows(results, <<r, t>>) = <<>>
                /\ \A i \in DOMAIN units_model :
                       (/\ units_model[i].model_region = r
                        /\ units_model[i].technology = t
                        /\ RLe(units_model[i].retirement_year, Num(settings.model_year)))
                       => \E m \in DOMAIN retired : retired[m] = units_model[i]

\* a finished run where coal has 0 clusters, one coal unit was operating
\* and went through the loop, and another coal unit had retired
C9_Witness ==
    /\ pc = "clustered"
    /\ Configured(<<"R1", Technologies[1]>>) = 0
    /\ <<"R1", Technologies[1]>> \in Range(Keys)
    /\ \E i \in DOMAIN units_model :
           /\ units_model[i].technology = Technologies[1]
           /\ RLe(units_model[i].retirement_year, Num(settings.model_year))
    /\ results # <<>>

\* C10: a pair configured for owner clustering takes its clusters from the
\* ownership routine; any other group with k > 0 is labelled by k-means with
\* labels in 1..k; any other group with k = 0 gets no cluster; and no group
\* with k > 0 is left without a cluster label on each of its unit-groups.
C10_DispatchLabelsEveryGroup ==
    Started =>
        /\ \A j \in DOMAIN unit_list :
               LET key == Keys[j]
                   k == num_clusters[key[1]][key[2]]
                   g == unit_list[j]
               IN  /\ OwnerConfigured(settings, key[1], key[2]) =>
                           g \in cluster_by_owner(GroupRows(region_tech_grouped, key))
                   /\ (ByKMeans(key) /\ k > 0) =>
                           /\ Labelled(g)
                           /\ \A i \in DOMAIN g : g[i].cluster \in 1..k
                   /\ (ByKMeans(key) /\ k = 0) =>
                           /\ \A i \in DOMAIN g : "cluster" \notin DOMAIN g[i]
                           /\ ClusterRows(Concat(cluster_list), key) = <<>>
                   /\ k > 0 => Labelled(g)
        /\ (pc = "failed" /\ todo # <<>>) => CurK <= 0

\* the unit-groups of group j that carry cluster label c
Members(j, c) == {i \in DOMAIN unit_list[j] : unit_list[j][i].cluster = c}

RECURSIVE SumOver(_, _, _, _)
\* the sum over the rows M of table g of column a times column b ("" for 1)
SumOver(g, M, a, b) ==
    IF M = {} THEN Num(0)
    ELSE LET i == CHOOSE x \in M : TRUE
         IN  RAdd(IF b = "" THEN g[i][a] ELSE RMul(g[i][a], g[i][b]),
                  SumOver(g, M \ {i}, a, b))

TRANSMISSION_TYPES == <<"spur", "offshore_spur", "tx">>

KEYS == {"wacc", "investment_years", "capex_mw_mile"}

Miles(ttype) == ttype \o "_miles"

Capex(ttype) == ttype \o "_capex"

InvMwyr(ttype) == ttype \o "_inv_mwyr"

\* line 2216
ResourceTypes(rdf) ==
    SelectSeq(TRANSMISSION_TYPES, LAMBDA x : Miles(x) \in DOMAIN rdf[1])

RECURSIVE Power(_, _)
Power(x, n) == IF n = 0 THEN Num(1) ELSE RMul(x, Power(x, n - 1))

\* investment_cost_calculator (powergenome.nrelatb): the capex annualized
\* with the capital recovery factor of the discount rate and the period
investment_cost_calculator(capex, wacc, years) ==
    LET growth == Power(RAdd(Num(1), wacc), years)
    IN  RMul(capex, RDiv(RMul(wacc, growth), RAdd(growth, Num(-1))))

\* lines 2234-2244: "<technology>_<tech_detail>_<cost_case>" -> capex_mw_mile
OffshoreCapexMap(costs) ==
    LET name(r) == r.technology \o "_" \o r.tech_detail \o "_" \o r.cost_case
    IN  [n \in {name(costs[i]) : i \in DOMAIN costs} |->
            LET last == CHOOSE i \in DOMAIN costs :
                            /\ name(costs[i]) = n
                            /\ \A j \in DOMAIN costs : name(costs[j]) = n => j <= i
            IN  costs[last].capex_mw_mile]

\* `not params.get("capex_mw_mile")`: absent, 0 or an empty dict or string
NoCapex(params) ==
    \/ "capex_mw_mile" \notin DOMAIN params
    \/ /\ params.capex_mw_mile.kind = "number"
       /\ params.capex_mw_mile.value = Num(0)
    \/ /\ params.capex_mw_mile.kind = "dict"
       /\ DOMAIN params.capex_mw_mile.value = {}

\* Series.map(dict).fillna(0)
MapFill0(d, k) == IF k \in DOMAIN d /\ NotNull(d[k]) THEN d[k] ELSE Num(0)

\* lines 2267-2272
WithCosts(rdf, ttype, params, capex_mw_mile) ==
    [i \in DOMAIN rdf |->
        LET capex == RMul(capex_mw_mile[i], rdf[i][Miles(ttype)])
        IN  AddCol(AddCol(rdf[i], Capex(ttype), capex),
                   InvMwyr(ttype),
                   investment_cost_calculator(capex, params.wacc,
                                              params.investment_years))]

\* lines 2222 and 2231: use_offshore_spur_costs is set before the loop and
\* again whenever the offshore table is taken; nothing sets it back
UsesOffshoreTable(use, this) == use \/ this

RECURSIVE TransmissionLoop(_, _, _, _, _)
\* the loop of lines 2223-2272 from entry i on; the result is the error
\* raised ("" for none) and the table as the loop left it
TransmissionLoop(ttypes, i, rdf, costs, use_offshore_spur_costs) ==
    IF i > Len(ttypes) THEN [error |-> "", resource_df |-> rdf]
    ELSE
    LET ttype == ttypes[i][1]
        table == /\ ttype = "offshore_spur"
                 /\ costs.given
                 /\ NoCapex(ttypes[i][2])
        use == UsesOffshoreTable(use_offshore_spur_costs, table)
        params == IF table
                  THEN AddCol(ttypes[i][2], "capex_mw_mile",
                              [kind |-> "dict", value |-> OffshoreCapexMap(costs.table)])
                  ELSE ttypes[i][2]
        regions == {rdf[n].region : n \in DOMAIN rdf}
        Fail(e) == [error |-> e, resource_df |-> rdf]
    IN  IF ttype \notin Range(ResourceTypes(rdf))
        THEN TransmissionLoop(ttypes, i + 1, rdf, costs, use_offshore_spur_costs)
        ELSE IF KEYS \ DOMAIN params # {} THEN Fail("KeyError")
        ELSE IF params.capex_mw_mile.kind = "dict"
        THEN IF use
             THEN TransmissionLoop(ttypes, i + 1,
                      WithCosts(rdf, ttype, params,
                          [n \in DOMAIN rdf |->
                              MapFill0(params.capex_mw_mile.value, rdf[n].technology)]),
                      costs, use)
             ELSE IF regions \ DOMAIN params.capex_mw_mile.value # {}
             THEN Fail("KeyError")
             ELSE TransmissionLoop(ttypes, i + 1,
                      WithCosts(rdf, ttype, params,
                          [n \in DOMAIN rdf |->
                              MapFill0(params.capex_mw_mile.value, rdf[n].region)]),
                      costs, use)
        \* line 2268 calls .fillna on the number taken at line 2261
        ELSE IF params.capex_mw_mile.kind = "number" THEN Fail("AttributeError")
        ELSE Fail("TypeError")

calculate_transmission_inv_cost(rdf, st, costs) ==
    LET ttypes == IF "transmission_investment_cost" \in DOMAIN st
                  THEN st.transmission_investment_cost ELSE <<>>
        configured == {ttypes[i][1] : i \in DOMAIN ttypes}
    IN  IF Range(ResourceTypes(rdf)) \ configured # {}
        THEN [error |-> "KeyError", resource_df |-> rdf]
        ELSE TransmissionLoop(ttypes, 1, rdf, costs, FALSE)

\* the inputs of the transmission costs
TxRegions == <<"R1", "R2">>

TxTechnologies == <<"OffShoreWind_Class1_Mid", "LandbasedWind_Class1_Mid">>

TxMiles == [spur |-> Num(10), offshore_spur |-> Num(20), tx |-> Num(30)]

RegionCapex == [r \in Range(TxRegions) |-> IF r = "R1" THEN Num(100) ELSE Num(200)]

FullParams(capex) ==
    [wacc |-> <<1, 10>>, investment_years |-> 2, capex_mw_mile |-> capex]

\* what the settings may hold for one line type
ParamChoices ==
    {FullParams([kind |-> "number", value |-> Num(150)]),
     FullParams([kind |-> "dict", value |-> RegionCapex]),
     FullParams([kind |-> "dict", value |-> [r \in {"R1"} |-> Num(100)]]),
     FullParams([kind |-> "str", value |-> "150"]),
     [investment_years |-> 2,
      capex_mw_mile |-> [kind |-> "dict", value |-> RegionCapex]],
     [wacc |-> <<1, 10>>, investment_years |-> 2]}

OffshoreCostChoices ==
    {[given |-> FALSE],
     [given |-> TRUE,
      table |-> <<[technology |-> "OffShoreWind", tech_detail |-> "Class1",
                   cost_case |-> "Mid", capex_mw_mile |-> Num(300)]>>]}

\* the settings dicts: any of the line types, in the order of
\* TRANSMISSION_TYPES, each with one of the choices
RECURSIVE TxSettings(_)
TxSettings(i) ==
    IF i > Len(TRANSMISSION_TYPES) THEN {<<>>}
    ELSE LET rest == TxSettings(i + 1)
         IN  rest \cup
             {<<<<TRANSMISSION_TYPES[i], p>>>> \o r : p \in ParamChoices, r \in rest}

TxRow(p, cols) ==
    [c \in {"region", "technology"} \cup {Miles(t) : t \in cols} |->
        CASE c = "region" -> TxRegions[((p - 1) \div Len(TxTechnologies)) + 1]
          [] c = "technology" -> TxTechnologies[((p - 1) % Len(TxTechnologies)) + 1]
          [] OTHER -> TxMiles[CHOOSE t \in cols : Miles(t) = c]]

InitTx ==
    \E ps \in Ascending(MaxResources, Len(TxRegions) * Len(TxTechnologies)) :
    \E cols \in SUBSET Range(TRANSMISSION_TYPES) :
    \E tic \in TxSettings(1) :
    \E costs \in OffshoreCostChoices :
        /\ pc = "new_generators"
        /\ resource_df = [i \in 1..MaxResources |-> TxRow(ps[i], cols)]
        /\ offshore_spur_costs = costs
        /\ fuel_prices = <<>>
        /\ settings = [transmission_investment_cost |-> tic]
        /\ error = ""
        /\ units_model = <<>>
        /\ num_clusters = <<>>
        /\ region_tech_grouped = <<>>
        /\ todo = <<>>
        /\ retired = <<>>
        /\ unit_list = <<>>
        /\ cluster_list = <<>>
        /\ results = <<>>
        /\ log = <<>>
        /\ fitted = <<>>
        /\ ReconIdle /\ HRIdle /\ BuildIdle /\ LoadIdle

\* lines 3129-3131: the call; the table is changed in place and returned
CalculateTransmissionInvCost ==
    /\ pc = "new_generators"
    /\ LET out == calculate_transmission_inv_cost(resource_df, settings,
                                                  offshore_spur_costs)
       IN  /\ resource_df' = out.resource_df
           /\ error' = out.error
           /\ pc' = IF out.error = "" THEN "tx_costed" ELSE "failed"
    /\ UNCHANGED <<reconVars, hrVars, units_model, clusterVars, buildVars,
                   offshore_spur_costs, fuel_prices, loadVars>>

NextTx == CalculateTransmissionInvCost

SpecTx == InitTx /\ [][NextTx]_vars

(***************************************************************************)
(* Properties of the transmission costs                                    *)
(***************************************************************************)
TxDone == pc \in {"tx_costed", "failed"}

UsedTypes == Range(ResourceTypes(resource_df))

TxConfigured == {settings.transmission_investment_cost[i][1] :
                     i \in DOMAIN settings.transmission_investment_cost}

TxParams(t) ==
    LET i == CHOOSE n \in DOMAIN settings.transmission_investment_cost :
                 settings.transmission_investment_cost[n][1] = t
    IN  settings.transmission_investment_cost[i][2]

\* the offshore spur line takes its per-mile cost from the technology table
FromOffshoreTable(t) ==
    /\ t = "offshore_spur"
    /\ offshore_spur_costs.given
    /\ "capex_mw_mile" \notin DOMAIN TxParams(t)

CapexKind(t, kind) ==
    /\ "capex_mw_mile" \in DOMAIN TxParams(t)
    /\ TxParams(t).capex_mw_mile.kind = kind

TxResourceRegions == {resource_df[n].region : n \in DOMAIN resource_df}

\* the configuration errors of the function's contract
MissingType == \E t \in UsedTypes : t \notin TxConfigured

MissingKey ==
    \E t \in UsedTypes \cap TxConfigured :
        /\ KEYS \ DOMAIN TxParams(t) # {}
        /\ ~(FromOffshoreTable(t) /\ KEYS \ DOMAIN TxParams(t) = {"capex_mw_mile"})

MissingRegion ==
    \E t \in UsedTypes \cap TxConfigured :
        /\ CapexKind(t, "dict")
        /\ TxResourceRegions \ DOMAIN TxParams(t).capex_mw_mile.value # {}

BadCapex == \E t \in UsedTypes \cap TxConfigured : CapexKind(t, "str")

\* the per-mile cost the settings give row n for line type t
PerMileCost(t, n) ==
    IF FromOffshoreTable(t)
    THEN MapFill0(OffshoreCapexMap(offshore_spur_costs.table), resource_df[n].technology)
    ELSE IF CapexKind(t, "number") THEN TxParams(t).capex_mw_mile.value
    ELSE TxParams(t).capex_mw_mile.value[resource_df[n].region]

\* C19: with a complete configuration the function returns, and for every
\* line type with a miles column every resource has capex = per-mile cost *
\* miles and inv_mwyr = that capex annualized, whether the per-mile cost is a
\* number, a dictionary over all regions or the offshore technology table.
C19_CapexIsCostTimesMiles ==
    (TxDone /\ ~MissingType /\ ~MissingKey /\ ~MissingRegion /\ ~BadCapex) =>
        /\ pc = "tx_costed"
        /\ \A t \in UsedTypes :
           \A n \in DOMAIN resource_df :
               /\ resource_df[n][Capex(t)] =
                      RMul(PerMileCost(t, n), resource_df[n][Miles(t)])
               /\ resource_df[n][InvMwyr(t)] =
                      investment_cost_calculator(resource_df[n][Capex(t)],
                                                 TxParams(t).wacc,
                                                 TxParams(t).investment_years)

\* C20: a line type with a miles column and no settings entry, a used line
\* type lacking wacc, investment_years or capex_mw_mile, a per-region capex
\* dictionary lacking a region of the resources (all KeyError) and a capex
\* that is neither number nor dictionary (TypeError) end the call with that
\* error, never with a returned table.
C20_ConfigurationErrorsAreFatal ==
    (TxDone /\ (MissingType \/ MissingKey \/ MissingRegion \/ BadCapex)) =>
        /\ pc = "failed"
        /\ error = "KeyError" => (MissingType \/ MissingKey \/ MissingRegion)
        /\ error = "TypeError" => BadCapex
        /\ error \in {"KeyError", "TypeError"}

(***************************************************************************)
(* Region assignment and the merge of the generator tables:                *)
(* load_plant_region_map (lines 384-461), supplement_generator_860_data    *)
(* (lines 678-817) and the prime mover codes of combined cycle plants      *)
(* (lines 1002-1035, called at lines 2665-2671).                           *)
(***************************************************************************)
\* the missing value of a column of strings (dtype object)
NA == "nan"

\* mutant: no deduplication
DropDuplicates_Keep(t, cols) == t

\* DataFrame.drop_duplicates(subset=cols, keep="first")
RECURSIVE DropDuplicatesFrom(_, _, _)
DropDuplicatesFrom(t, cols, i) ==
    IF i > Len(t) THEN <<>>
    ELSE IF \E j \in 1..(i - 1) : \A c \in cols : t[j][c] = t[i][c]
         THEN DropDuplicatesFrom(t, cols, i + 1)
         ELSE <<t[i]>> \o DropDuplicatesFrom(t, cols, i + 1)

DropDuplicates(t, cols) == DropDuplicatesFrom(t, cols, 1)

\* lines 413-428: the user's file replaces the region of the plants it lists
UserRegions(t, st) ==
    IF "plant_region_map_fn" \in DOMAIN st
    THEN [i \in DOMAIN t |->
             IF t[i].plant_id_eia \in DOMAIN st.plant_region_map_fn
             THEN [t[i] EXCEPT !.region = st.plant_region_map_fn[t[i].plant_id_eia]]
             ELSE t[i]]
    ELSE t

\* powergenome.util.regions_to_keep: the raw regions named in model_regions
\* and the members of the aggregations named there; the reversed aggregation
\* dictionary raw region -> aggregated name
KeepRegions(st) ==
    {r \in Range(st.model_regions) : r \notin DOMAIN st.region_aggregations}
    \cup UNION {st.region_aggregations[a] :
                   a \in Range(st.model_regions) \cap DOMAIN st.region_aggregations}

RegionAggMap(st) ==
    [r \in UNION {st.region_aggregations[a] : a \in DOMAIN st.region_aggregations} |->
        CHOOSE a \in DOMAIN st.region_aggregations : r \in st.region_aggregations[a]]

\* powergenome.util.map_agg_region_names
map_agg_region_names(t, region_agg_map) ==
    [i \in DOMAIN t |->
        AddCol(t[i], "model_region",
               IF t[i].region \in DOMAIN region_agg_map
               THEN region_agg_map[t[i].region]
               ELSE t[i].region)]

\* lines 433-435: the lookup table, then the hydro plants of the spatial join
\* (they have no id), one row per plant
ConcatRegionMaps(t, hydro) ==
    DropDuplicates(t \o [i \in DOMAIN hydro |-> AddCol(hydro[i], "id", NaN)],
                   {"plant_id_eia"})

\* lines 408-461
load_plant_region_map(t, hydro, st) ==
    LET all == ConcatRegionMaps(UserRegions(t, st), hydro)
        kept == Loc(all, {i \in DOMAIN all : all[i].region \in KeepRegions(st)})
        named == map_agg_region_names([i \in DOMAIN kept |-> DropCol(kept[i], "id")],
                                      RegionAggMap(st))
    IN  DropDuplicates(named, {"plant_id_eia", "model_region"})

\* pd.merge(gens, model_region_map.drop(columns="region"), on="plant_id_eia",
\* how="inner"): every pair of a generator row and a map row of its plant, in
\* the order of the generator rows
RECURSIVE MergeRegion(_, _, _)
MergeRegion(gens, map, i) ==
    IF i > Len(gens) THEN <<>>
    ELSE LET hits == Loc(map, {j \in DOMAIN map :
                                  map[j].plant_id_eia = gens[i].plant_id_eia})
         IN  [j \in DOMAIN hits |-> AddCol(gens[i], "model_region", hits[j].model_region)]
             \o MergeRegion(gens, map, i + 1)

\* lines 776-784: a generator without a unit id gets plant + "_" + generator
FillUnitIds(t) ==
    [i \in DOMAIN t |->
        IF t[i].unit_id_pudl = NA
        THEN [t[i] EXCEPT !.unit_id_pudl =
                 ToString(t[i].plant_id_eia) \o "_" \o t[i].generator_id]
        ELSE t[i]]

\* lines 788-790: the (plant, unit) keys of the rows without a seasonal capacity,
\* each with its group _df: these rows only
CheckUnits(t, cap) ==
    {<<t[i].plant_id_eia, t[i].unit_id_pudl>> : i \in {j \in DOMAIN t : IsNull(t[j][cap])}}

CheckGroup(t, cap, key) ==
    Loc(t, {i \in DOMAIN t : /\ IsNull(t[i][cap])
                             /\ <<t[i].plant_id_eia, t[i].unit_id_pudl>> = key})

\* lines 791-801
FillSeasonalCapacity(t, cap) ==
    LET filled == {key \in CheckUnits(t, cap) :
                      \A j \in DOMAIN CheckGroup(t, cap, key) :
                          IsNull(CheckGroup(t, cap, key)[j][cap])}
    IN  [i \in DOMAIN t |->
            IF <<t[i].plant_id_eia, t[i].unit_id_pudl>> \in filled
            THEN [t[i] EXCEPT ![cap] = t[i].capacity_mw]
            ELSE t[i]]

\* lines 763-801.  The generator rows carry the columns of the entity table
\* and of the boiler/generator association already: both hold at most one row
\* per generator here, and unit_id_pudl is missing where the association has
\* no row for the generator (the left merge of line 773).
supplement_generator_860_data(gens, model_region_map, st) ==
    FillSeasonalCapacity(FillUnitIds(MergeRegion(gens, model_region_map, 1)),
                         st.capacity_col)

\* lines 1024-1028
cc_without_pudl_id(gens_860) ==
    {gens_860[i].plant_id_eia :
        i \in {j \in DOMAIN gens_860 :
                  /\ gens_860[j].unit_id_pudl = NA
                  /\ gens_860[j].technology_description = Technologies[2]}}

\* lines 1029-1035
modify_cc_prime_mover_code(t, gens_860) ==
    [i \in DOMAIN t |->
        IF /\ t[i].plant_id_eia \in cc_without_pudl_id(gens_860)
           /\ t[i].prime_mover_code \in {"CA", "CT"}
        THEN [t[i] EXCEPT !.prime_mover_code = "CC"]
        ELSE t[i]]

(***************************************************************************)
(* Inputs of the region assignment: a lookup table of at most MaxMapRows   *)
(* rows over two plants and three raw regions, the hydro plant with or     *)
(* without a region from the spatial join, three region configurations     *)
(* and an optional user file.                                              *)
(***************************************************************************)
MaxMapRows == 2     \* rows of the plant/region lookup table

MaxSuppRows == 2    \* rows of the generator table at supplement_generator_860_data

RawRegions == <<"A", "B", "C">>

PrimeMovers == <<"CT", "CA", "CS", "ST">>

GenRow(plant, gen, unit, seasonal, tech, pm) ==
    [plant_id_eia |-> plant,
     generator_id |-> gen,
     unit_id_pudl |-> unit,
     winter_capacity_mw |-> seasonal,
     capacity_mw |-> Num(10),
     technology_description |-> tech,
     prime_mover_code |-> pm]

RegionMaps ==
    UNION {{[i \in 1..n |-> [id |-> i, plant_id_eia |-> PlantIds[ks[i][1]],
                             region |-> RawRegions[ks[i][2]]]] :
               ks \in [1..n -> (DOMAIN PlantIds) \X (DOMAIN RawRegions)]} :
           n \in 0..MaxMapRows}

\* plant 2 is the hydro plant
HydroRegions ==
    {<<>>} \cup {<<[plant_id_eia |-> PlantIds[2], region |-> r]>> : r \in Range(RawRegions)}

RegionSettings ==
    {[capacity_col |-> "winter_capacity_mw", model_regions |-> <<"A", "B">>,
      region_aggregations |-> NoDict],
     [capacity_col |-> "winter_capacity_mw", model_regions |-> <<"AB">>,
      region_aggregations |-> [a \in {"AB"} |-> {"A", "B"}]],
     [capacity_col |-> "winter_capacity_mw", model_regions |-> <<"A">>,
      region_aggregations |-> NoDict]}

UserRegionMaps == {NoDict, [p \in {PlantIds[1]} |-> RawRegions[3]],
                   [p \in {PlantIds[1]} |-> RawRegions[1]]}

WithUserMap(st, user) ==
    IF user = NoDict THEN st
    ELSE [k \in DOMAIN st \cup {"plant_region_map_fn"} |->
             IF k = "plant_region_map_fn" THEN user ELSE st[k]]

InitRegion ==
    \E map \in RegionMaps, hydro \in HydroRegions, st \in RegionSettings,
       user \in UserRegionMaps :
        /\ pc = "start"
        /\ error = ""
        /\ df = <<GenRow(PlantIds[1], GeneratorIds[1], "1", Num(8), Technologies[2], "CT"),
                  GenRow(PlantIds[1], GeneratorIds[2], "1", Num(8), Technologies[2], "CA"),
                  GenRow(PlantIds[2], GeneratorIds[1], NA, Num(8),
                         "Conventional Hydroelectric", "HY")>>
        /\ canceled_860m = <<>>
        /\ retired_860m = <<>>
        /\ canceled = <<>>
        /\ retired_rows = <<>>
        /\ settings = WithUserMap(st, user)
        /\ region_map_df = map
        /\ all_hydro_regions = hydro
        /\ model_region_map_df = <<>>
        /\ gen_923 = <<>>
        /\ add_additional_retirements = TRUE
        /\ units_model = <<>>
        /\ HRIdle
        /\ num_clusters = <<>> /\ region_tech_grouped = <<>> /\ todo = <<>>
        /\ retired = <<>> /\ unit_list = <<>> /\ cluster_list = <<>>
        /\ results = <<>> /\ log = <<>> /\ fitted = <<>>
        /\ BuildIdle
        /\ TxIdle

\* load_plant_region_map, called in GeneratorClusters.__init__
LoadPlantRegionMap ==
    /\ pc = "start"
    /\ model_region_map_df' = load_plant_region_map(region_map_df, all_hydro_regions, settings)
    /\ pc' = "region_mapped"
    /\ UNCHANGED <<error, reconVars, hrVars, units_model, clusterVars, buildVars, txVars,
                   gen_923, region_map_df, all_hydro_regions, add_additional_retirements>>

\* supplement_generator_860_data, piped at lines 2647-2653
SupplementGenerators ==
    /\ pc = "region_mapped"
    /\ gens_860_model' = supplement_generator_860_data(df, model_region_map_df, settings)
    /\ pc' = "supplemented"
    /\ UNCHANGED <<error, reconVars, weighted_unit_hr, prime_mover_hr_map, units_model,
                   clusterVars, otherVars>>

NextRegion == LoadPlantRegionMap \/ SupplementGenerators

SpecRegion == InitRegion /\ [][NextRegion]_vars

(***************************************************************************)
(* Inputs of the merge: generators of two plants in ascending profile      *)
(* order, with or without a unit id in the boiler/generator association    *)
(* and with or without a winter capacity, and the 923 generation records   *)
(* of both plants for every prime mover code.                              *)
(***************************************************************************)
SuppUnits == <<NA, "1">>

SuppCapacities == <<NaN, Num(8), Num(9)>>

\* (technology, prime mover) of a generator
SuppKinds == <<<<Technologies[2], "CT">>, <<Technologies[2], "CS">>,
               <<Technologies[1], "ST">>>>

NumSuppProfiles ==
    Len(PlantIds) * Len(GeneratorIds) * Len(SuppUnits) * Len(SuppCapacities) * Len(SuppKinds)

SuppProfile(p) ==
    LET q == p - 1
        kind == SuppKinds[(q % Len(SuppKinds)) + 1]
        q1 == q \div Len(SuppKinds)
        q2 == q1 \div Len(SuppCapacities)
        q3 == q2 \div Len(SuppUnits)
    IN  GenRow(PlantIds[(q3 \div Len(GeneratorIds)) + 1],
               GeneratorIds[(q3 % Len(GeneratorIds)) + 1],
               SuppUnits[(q2 % Len(SuppUnits)) + 1],
               SuppCapacities[(q1 % Len(SuppCapacities)) + 1],
               kind[1], kind[2])

Gen923 ==
    [i \in 1..(Len(PlantIds) * Len(PrimeMovers)) |->
        [plant_id_eia |-> PlantIds[((i - 1) \div Len(PrimeMovers)) + 1],
         prime_mover_code |-> PrimeMovers[((i - 1) % Len(PrimeMovers)) + 1]]]

\* plant -> model region tables as load_plant_region_map returns them
PlantRegionMaps ==
    {[i \in 1..Len(PlantIds) |->
         [plant_id_eia |-> PlantIds[i], model_region |-> RawRegions[i]]],
     <<[plant_id_eia |-> PlantIds[1], model_region |-> RawRegions[1]]>>}

InitSupplement ==
    \E ps \in Ascending(MaxSuppRows, NumSuppProfiles), map \in PlantRegionMaps :
        /\ pc = "region_mapped"
        /\ error = ""
        /\ df = [i \in 1..MaxSuppRows |-> SuppProfile(ps[i])]
        /\ canceled_860m = <<>>
        /\ retired_860m = <<>>
        /\ canceled = <<>>
        /\ retired_rows = <<>>
        /\ settings = [capacity_col |-> "winter_capacity_mw"]
        /\ region_map_df = <<>>
        /\ all_hydro_regions = <<>>
        /\ model_region_map_df = map
        /\ gen_923 = Gen923
        /\ add_additional_retirements = TRUE
        /\ units_model = <<>>
        /\ HRIdle
        /\ num_clusters = <<>> /\ region_tech_grouped = <<>> /\ todo = <<>>
        /\ retired = <<>> /\ unit_list = <<>> /\ cluster_list = <<>>
        /\ results = <<>> /\ log = <<>> /\ fitted = <<>>
        /\ BuildIdle
        /\ TxIdle

\* lines 2665-2671: modify_cc_prime_mover_code on the generators, drop_duplicates,
\* then modify_cc_prime_mover_code on the 923 records.  The steps piped between
\* supplement_generator_860_data and these lines write neither unit_id_pudl nor
\* prime_mover_code.
ModifyPrimeMovers ==
    /\ pc = "supplemented"
    /\ LET modified == modify_cc_prime_mover_code(gens_860_model, gens_860_model)
           deduplicated == DropDuplicates(modified, DOMAIN modified[1])
       IN  IF modified = <<>>
           THEN /\ gens_860_model' = <<>>
                /\ gen_923' = modify_cc_prime_mover_code(gen_923, <<>>)
           ELSE /\ gens_860_model' = deduplicated
                /\ gen_923' = modify_cc_prime_mover_code(gen_923, deduplicated)
    /\ pc' = "cc_modified"
    /\ UNCHANGED <<error, reconVars, weighted_unit_hr, prime_mover_hr_map, units_model,
                   clusterVars, buildVars, txVars, region_map_df, all_hydro_regions,
                   model_region_map_df, add_additional_retirements>>

NextSupplement == SupplementGenerators \/ ModifyPrimeMovers

SpecSupplement == InitSupplement /\ [][NextSupplement]_vars

(***************************************************************************)
(* Properties of the region assignment.                                    *)
(***************************************************************************)
RegionMapped == pc \in {"region_mapped", "supplemented"}

\* the raw regions a plant is listed under: the lookup table after the user's
\* replacements, and the spatial join
RawRegionsOf(plant) ==
    {UserRegions(region_map_df, settings)[i].region :
        i \in {j \in DOMAIN region_map_df : region_map_df[j].plant_id_eia = plant}}
    \cup {all_hydro_regions[i].region :
             i \in {j \in DOMAIN all_hydro_regions :
                       all_hydro_regions[j].plant_id_eia = plant}}

\* the model region a raw region belongs to
ModelRegionOf(region) ==
    IF \E a \in DOMAIN settings.region_aggregations : region \in settings.region_aggregations[a]
    THEN CHOOSE a \in DOMAIN settings.region_aggregations :
             region \in settings.region_aggregations[a]
    ELSE region

KeptRaw(region) ==
    \/ /\ region \in Range(settings.model_regions)
       /\ region \notin DOMAIN settings.region_aggregations
    \/ \E a \in Range(settings.model_regions) \cap DOMAIN settings.region_aggregations :
           region \in settings.region_aggregations[a]

\* C18: in the map load_plant_region_map returns every plant has exactly one
\* row, whose region is a kept raw region the plant is listed under and whose
\* model region is the aggregate of that region; a plant listed under no kept
\* region is absent; the merge of supplement_generator_860_data gives every
\* generator of a mapped plant exactly one row, with the plant's model region,
\* and drops the generators of the other plants.
C18_OneModelRegionPerPlant ==
    /\ RegionMapped =>
        /\ \A i, j \in DOMAIN model_region_map_df :
               model_region_map_df[i].plant_id_eia = model_region_map_df[j].plant_id_eia
                   => i = j
        /\ \A i \in DOMAIN model_region_map_df :
               /\ model_region_map_df[i].region
                      \in RawRegionsOf(model_region_map_df[i].plant_id_eia)
               /\ KeptRaw(model_region_map_df[i].region)
               /\ model_region_map_df[i].model_region
                      = ModelRegionOf(model_region_map_df[i].region)
        /\ \A plant \in Range(PlantIds) :
               (\A r \in RawRegionsOf(plant) : ~KeptRaw(r))
                   => \A i \in DOMAIN model_region_map_df :
                          model_region_map_df[i].plant_id_eia # plant
    /\ pc = "supplemented" =>
        \A g \in DOMAIN df :
            LET rows == {i \in DOMAIN gens_860_model :
                            /\ gens_860_model[i].plant_id_eia = df[g].plant_id_eia
                            /\ gens_860_model[i].generator_id = df[g].generator_id}
                maps == {j \in DOMAIN model_region_map_df :
                            model_region_map_df[j].plant_id_eia = df[g].plant_id_eia}
            IN  /\ Cardinality(rows) = Cardinality(maps)
                /\ Cardinality(rows) <= 1
                /\ \A i \in rows : \A j \in maps :
                       gens_860_model[i].model_region = model_region_map_df[j].model_region

\* the lookup lists plant 1 under two raw regions of one aggregate, the hydro
\* plant is in the lookup and in the spatial join, and both reach the generators
C18_Witness ==
    /\ pc = "supplemented"
    /\ Len(region_map_df) >= 2
    /\ \E i, j \in DOMAIN region_map_df :
           /\ region_map_df[i].plant_id_eia = region_map_df[j].plant_id_eia
           /\ region_map_df[i].region # region_map_df[j].region
           /\ KeptRaw(region_map_df[i].region)
           /\ KeptRaw(region_map_df[j].region)
           /\ \E g \in DOMAIN gens_860_model :
                  gens_860_model[g].plant_id_eia = region_map_df[i].plant_id_eia
    /\ settings.region_aggregations # NoDict

(***************************************************************************)
(* Properties of the merge and of the prime mover codes.                   *)
(***************************************************************************)
\* the generator rows of the plants of the region map, which the inner merge
\* keeps, in their order
SourceRows ==
    Loc(df, {i \in DOMAIN df :
                \E j \in DOMAIN model_region_map_df :
                    model_region_map_df[j].plant_id_eia = df[i].plant_id_eia})

\* the rows of the unit-group of row k
UnitGroupOf(k) ==
    {j \in DOMAIN gens_860_model :
        /\ gens_860_model[j].plant_id_eia = gens_860_model[k].plant_id_eia
        /\ gens_860_model[j].unit_id_pudl = gens_860_model[k].unit_id_pudl}

\* C15: after supplement_generator_860_data a generator has its nameplate
\* capacity as seasonal capacity when every generator of its (plant, unit-group)
\* came without a seasonal capacity; in every other unit-group each generator
\* keeps what it came with, a missing value included.
C15_BackfillOnlyWholeUnitGroups ==
    pc = "supplemented" =>
        /\ Len(gens_860_model) = Len(SourceRows)
        /\ \A k \in DOMAIN gens_860_model :
               IF \A j \in UnitGroupOf(k) : IsNull(SourceRows[j].winter_capacity_mw)
               THEN gens_860_model[k].winter_capacity_mw = gens_860_model[k].capacity_mw
               ELSE gens_860_model[k].winter_capacity_mw = SourceRows[k].winter_capacity_mw

\* the plants with a combined cycle generator that the boiler/generator
\* association gives no unit id
PlantsOfUnmatchedCC ==
    {SourceRows[i].plant_id_eia :
        i \in {j \in DOMAIN SourceRows :
                  /\ SourceRows[j].unit_id_pudl = NA
                  /\ SourceRows[j].technology_description = Technologies[2]}}

Remapped(before, after) ==
    IF before.plant_id_eia \in PlantsOfUnmatchedCC /\ before.prime_mover_code \in {"CT", "CA"}
    THEN after.prime_mover_code = "CC"
    ELSE after.prime_mover_code = before.prime_mover_code

\* C16: when the heat rates by plant and prime mover are about to be computed,
\* the 923 records with prime mover CT or CA at a plant that has a combined
\* cycle generator without a unit id of the association carry the code CC, and
\* every other record carries the code it came with.
C16_CombinedCycleCodesMerged ==
    pc = "cc_modified" =>
        /\ Len(gen_923) = Len(Gen923)
        /\ \A i \in DOMAIN gen_923 : Remapped(Gen923[i], gen_923[i])

(***************************************************************************)
(* Retirement years, label_retirement_year (lines 464-566).                *)
(* A date is a record of year and month; NaT is the missing date.          *)
(***************************************************************************)
NaT == [year |-> 0, month |-> 0]

\* Series.dt.year: the year as a float, NaN for NaT
DtYear(d) == IF d = NaT THEN NaN ELSE Num(d.year)

\* str(gen_id): settings may give the generator id as a number or as a string
GenIdStr(g) == IF g.kind = "int" THEN ToString(g.value) ELSE g.value

\* lines 495-496
AddRetirementColumn(t) ==
    [i \in DOMAIN t |->
        IF "retirement_year" \in DOMAIN t[i] THEN t[i]
        ELSE AddCol(t[i], "retirement_year", NaN)]

\* lines 498-507: the technologies of retirement_ages are distinct, the order
\* of the loop does not matter
ApplyLifetimes(t, retirement_ages) ==
    [i \in DOMAIN t |->
        IF t[i].technology_description \in DOMAIN retirement_ages
        THEN [t[i] EXCEPT !.retirement_year =
                 RAdd(DtYear(t[i].operating_date),
                      Num(retirement_ages[t[i].technology_description]))]
        ELSE t[i]]

\* mutant: the planned date fills in only where no retirement year is set
ApplyPlannedRetirement_IfUnset(t) ==
    [i \in DOMAIN t |->
        IF /\ "planned_retirement_date" \in DOMAIN t[i]
           /\ t[i].planned_retirement_date # NaT
           /\ IsNull(t[i].retirement_year)
        THEN [t[i] EXCEPT !.retirement_year = DtYear(t[i].planned_retirement_date)]
        ELSE t[i]]

\* lines 509-514: KeyError (no such column) is passed over
ApplyPlannedRetirement(t) ==
    [i \in DOMAIN t |->
        IF "planned_retirement_date" \in DOMAIN t[i] /\ t[i].planned_retirement_date # NaT
        THEN [t[i] EXCEPT !.retirement_year = DtYear(t[i].planned_retirement_date)]
        ELSE t[i]]

\* lines 526-535: the records in the order of the settings
RECURSIVE ApplyAdditionalRetirements(_, _, _)
ApplyAdditionalRetirements(t, records, n) ==
    IF n > Len(records) THEN t
    ELSE ApplyAdditionalRetirements(
             [i \in DOMAIN t |->
                 IF /\ t[i].plant_id_eia = records[n].plant_id
                    /\ t[i].generator_id = GenIdStr(records[n].gen_id)
                 THEN [t[i] EXCEPT !.retirement_year = Num(records[n].ret_year)]
                 ELSE t[i]],
             records, n + 1)

\* line 517: settings.get("additional_retirements") and add_additional_retirements
UsesAdditionalRetirements(st, add) ==
    /\ "additional_retirements" \in DOMAIN st
    /\ st.additional_retirements # <<>>
    /\ add

RetirementAges(st) == IF "retirement_ages" \in DOMAIN st THEN st.retirement_ages ELSE NoDict

\* lines 493-566
label_retirement_year(t, st, add) ==
    LET planned == ApplyPlannedRetirement(
                       ApplyLifetimes(AddRetirementColumn(t), RetirementAges(st)))
    IN  IF UsesAdditionalRetirements(st, add)
        THEN ApplyAdditionalRetirements(planned, st.additional_retirements, 1)
        ELSE planned

(***************************************************************************)
(* Inputs of the retirement years: generators of one plant in ascending    *)
(* profile order, with or without the columns retirement_year and          *)
(* planned_retirement_date.                                                *)
(***************************************************************************)
MaxRetireRows == 2   \* rows of the generator table at label_retirement_year

OperatingDates == <<NaT, [year |-> 1980, month |-> 6]>>

PlannedRetirementDates == <<NaT, [year |-> 2028, month |-> 12]>>

IncomingRetirementYears == <<NaN, Num(2050)>>

NumRetireProfiles ==
    Len(GeneratorIds) * Len(Technologies) * Len(OperatingDates)
        * Len(PlannedRetirementDates) * Len(IncomingRetirementYears)

RetireProfile(p) ==
    LET q == p - 1
        q1 == q \div Len(IncomingRetirementYears)
        q2 == q1 \div Len(PlannedRetirementDates)
        q3 == q2 \div Len(OperatingDates)
    IN  [plant_id_eia |-> PlantIds[1],
         generator_id |-> GeneratorIds[(q3 \div Len(Technologies)) + 1],
         technology_description |-> Technologies[(q3 % Len(Technologies)) + 1],
         operating_date |-> OperatingDates[(q2 % Len(OperatingDates)) + 1],
         planned_retirement_date |->
             PlannedRetirementDates[(q1 % Len(PlannedRetirementDates)) + 1],
         retirement_year |-> IncomingRetirementYears[(q % Len(IncomingRetirementYears)) + 1],
         capacity_mw |-> Num(10)]

RetirementRecord(plant, kind, gen, year) ==
    [plant_id |-> plant, gen_id |-> [kind |-> kind, value |-> gen], ret_year |-> year]

\* the additional_retirements lists: generator 1 given as a number, generator
\* GT2 as a string, generator 1 twice
AdditionalRetirements(c) ==
    CASE c = 1 -> <<>>
      [] c = 2 -> <<RetirementRecord(PlantIds[1], "int", 1, 2025)>>
      [] c = 3 -> <<RetirementRecord(PlantIds[1], "str", GeneratorIds[2], 2026)>>
      [] c = 4 -> <<RetirementRecord(PlantIds[1], "int", 1, 2025),
                    RetirementRecord(PlantIds[1], "int", 1, 2027)>>

RetirementSettings(ages, c) ==
    LET base == [model_year |-> 2030, capacity_col |-> "capacity_mw"]
        aged == IF ages
                THEN [k \in DOMAIN base \cup {"retirement_ages"} |->
                         IF k = "retirement_ages"
                         THEN [t \in {Technologies[1]} |-> 40]
                         ELSE base[k]]
                ELSE base
    IN  IF c = 0 THEN aged
        ELSE [k \in DOMAIN aged \cup {"additional_retirements"} |->
                 IF k = "additional_retirements" THEN AdditionalRetirements(c) ELSE aged[k]]

WithoutColumns(r, cols) == [c \in DOMAIN r \ cols |-> r[c]]

InitRetire ==
    \E ps \in Ascending(MaxRetireRows, NumRetireProfiles) :
    \E missing \in SUBSET {"retirement_year", "planned_retirement_date"} :
    \E ages \in BOOLEAN, c \in 0..4, add \in BOOLEAN :
        /\ pc = "retired_removed"
        /\ error = ""
        /\ df = [i \in 1..MaxRetireRows |-> WithoutColumns(RetireProfile(ps[i]), missing)]
        /\ canceled_860m = <<>>
        /\ retired_860m = <<>>
        /\ canceled = <<>>
        /\ retired_rows = <<>>
        /\ settings = RetirementSettings(ages, c)
        /\ add_additional_retirements = add
        /\ gen_923 = <<>>
        /\ region_map_df = <<>>
        /\ all_hydro_regions = <<>>
        /\ model_region_map_df = <<>>
        /\ units_model = <<>>
        /\ HRIdle
        /\ num_clusters = <<>> /\ region_tech_grouped = <<>> /\ todo = <<>>
        /\ retired = <<>> /\ unit_list = <<>> /\ cluster_list = <<>>
        /\ results = <<>> /\ log = <<>> /\ fitted = <<>>
        /\ BuildIdle
        /\ TxIdle

\* label_retirement_year, piped at line 2656 (and called at lines 1660 and 1822)
LabelRetirementYear ==
    /\ pc = "retired_removed"
    /\ IF Len(label_retirement_year(df, settings, add_additional_retirements)) = Len(df)
       THEN /\ df' = label_retirement_year(df, settings, add_additional_retirements)
            /\ pc' = "retirement_labelled"
            /\ error' = error
       ELSE /\ df' = df
            /\ pc' = "failed"
            /\ error' = "AssertionError"
    /\ log' = Append(log,
                     [level |-> "info",
                      changed |-> IF UsesAdditionalRetirements(settings,
                                                               add_additional_retirements)
                                  THEN Len(settings.additional_retirements)
                                  ELSE 0])
    /\ UNCHANGED <<canceled_860m, retired_860m, canceled, retired_rows, hrVars, units_model,
                   settings, num_clusters, region_tech_grouped, todo, retired, unit_list,
                   cluster_list, results, fitted, otherVars>>

NextRetire == LabelRetirementYear

SpecRetire == InitRetire /\ [][NextRetire]_vars

(***************************************************************************)
(* Properties of the retirement years.                                     *)
(***************************************************************************)
\* the additional_retirements records that name row r, by position
MatchingRecords(r) ==
    IF "additional_retirements" \in DOMAIN settings /\ add_additional_retirements
    THEN {n \in DOMAIN settings.additional_retirements :
             /\ settings.additional_retirements[n].plant_id = r.plant_id_eia
             /\ \/ /\ settings.additional_retirements[n].gen_id.kind = "int"
                   /\ ToString(settings.additional_retirements[n].gen_id.value)
                          = r.generator_id
                \/ /\ settings.additional_retirements[n].gen_id.kind = "str"
                   /\ settings.additional_retirements[n].gen_id.value = r.generator_id}
    ELSE {}

HasPlannedRetirement(r) ==
    "planned_retirement_date" \in DOMAIN r /\ r.planned_retirement_date # NaT

HasLifetime(r) ==
    /\ "retirement_ages" \in DOMAIN settings
    /\ r.technology_description \in DOMAIN settings.retirement_ages

\* the retirement year the precedence gives row `before`
ExpectedRetirementYear(before) ==
    IF MatchingRecords(before) # {}
    THEN Num(settings.additional_retirements[
                 CHOOSE n \in MatchingRecords(before) :
                     \A m \in MatchingRecords(before) : m <= n].ret_year)
    ELSE IF HasPlannedRetirement(before)
    THEN Num(before.planned_retirement_date.year)
    ELSE IF HasLifetime(before)
    THEN IF before.operating_date = NaT THEN NaN
         ELSE Num(before.operating_date.year
                  + settings.retirement_ages[before.technology_description])
    ELSE IF "retirement_year" \in DOMAIN before THEN before.retirement_year
    ELSE NaN

\* C17: label_retirement_year returns as many rows as it was given, each with
\* the retirement year of the highest applicable rule: an additional_retirements
\* record naming the generator (the last one, and only when
\* add_additional_retirements is set), else the year of its planned retirement
\* date, else operating year plus the lifetime of its technology, else the
\* retirement year it came with, missing if it came with none.
C17_RetirementYearPrecedence ==
    [][pc = "retired_removed" =>
          /\ pc' = "retirement_labelled"
          /\ Len(df') = Len(df)
          /\ \A i \in DOMAIN df :
                 /\ df'[i].retirement_year = ExpectedRetirementYear(df[i])
                 /\ \A c \in DOMAIN df[i] \ {"retirement_year"} : df'[i][c] = df[i][c]]_vars

\* a generator with a lifetime, a planned retirement date and an additional
\* retirement record given with a numeric generator id has the year of the record
C17_Witness ==
    /\ pc = "retirement_labelled"
    /\ add_additional_retirements
    /\ \E i \in DOMAIN df :
           /\ MatchingRecords(df[i]) # {}
           /\ HasPlannedRetirement(df[i])
           /\ HasLifetime(df[i])
           /\ df[i].operating_date # NaT
           /\ df[i].retirement_year = Num(2025)
    /\ \E i \in DOMAIN df :
           /\ MatchingRecords(df[i]) = {}
           /\ HasPlannedRetirement(df[i])
           /\ HasLifetime(df[i])
           /\ df[i].operating_date # NaT
           /\ df[i].retirement_year = Num(2028)

(***************************************************************************)
(* The end of create_region_technology_clusters (lines 2959-3096),         *)
(* create_new_generators (lines 3098-3143) and create_all_generators       *)
(* (lines 3145-3178).                                                      *)
(***************************************************************************)
\* np.round: to the nearest multiple of 1/scale, halves to the even one
RoundTo(x, scale) ==
    IF IsNull(x) THEN NaN
    ELSE LET a == x[1] * scale
             q == a \div x[2]
             r == a % x[2]
         IN  Norm(<<IF 2 * r < x[2] THEN q
                    ELSE IF 2 * r > x[2] THEN q + 1
                    ELSE IF q % 2 = 0 THEN q ELSE q + 1,
                    scale>>)

\* the columns of dtype float
FloatColumns ==
    {"Cap_size", "minimum_load_mw", "Heat_Rate_MMBTU_per_MWh", "Fixed_OM_Cost_per_MWyr",
     "Var_OM_Cost_per_MWh", "Min_Power", "capacity_factor", "unmodified_cap_size",
     "Existing_Cap_MW", "unmodified_existing_cap_mw", "Inv_Cost_per_MWyr",
     "plant_inv_cost_mwyr", "variable_CF"}
    \cup UNION {{Miles(t), Capex(t), InvMwyr(t)} : t \in Range(TRANSMISSION_TYPES)}

\* DataFrame.round(3)
Round3(t) ==
    [i \in DOMAIN t |->
        [c \in DOMAIN t[i] |->
            IF c \in FloatColumns THEN RoundTo(t[i][c], 1000) ELSE t[i][c]]]

\* DataFrame.rename(columns={old: new})
Rename(r, old, new) ==
    [c \in (DOMAIN r \ {old}) \cup {new} |-> IF c = new THEN r[old] ELSE r[c]]

\* lines 2962-2968
RenameResults(t, st) ==
    [i \in DOMAIN t |->
        Rename(Rename(t[i], st.capacity_col, "Cap_size"),
               "heat_rate_mmbtu_mwh", "Heat_Rate_MMBTU_per_MWh")]

\* lines 2976-2981: left merge on region and technology
RECURSIVE MergeCapacityFactors(_, _, _)
MergeCapacityFactors(t, cf, i) ==
    IF i > Len(t) THEN <<>>
    ELSE LET hits == Loc(cf, {j \in DOMAIN cf : /\ cf[j].region = t[i].region
                                                /\ cf[j].technology = t[i].technology})
         IN  (IF hits = <<>> THEN <<AddCol(t[i], "capacity_factor", NaN)>>
              ELSE [j \in DOMAIN hits |->
                       AddCol(t[i], "capacity_factor", hits[j].capacity_factor)])
             \o MergeCapacityFactors(t, cf, i + 1)

\* `type(settings.get("capacity_factor_techs")) is list`
HasCapacityFactorTechs(st) == "capacity_factor_techs" \in DOMAIN st

\* settings.get("derate_capacity")
DerateCapacity(st) == "derate_capacity" \in DOMAIN st /\ st.derate_capacity

\* lines 2983-2998
Derate(t, st) ==
    [i \in DOMAIN t |->
        LET kept == AddCol(t[i], "unmodified_cap_size", t[i].Cap_size)
        IN  IF t[i].technology \in Range(st.derate_techs)
            THEN [kept EXCEPT !.Cap_size = RMul(kept.unmodified_cap_size,
                                                kept.capacity_factor)]
            ELSE kept]

\* mutant: the capacity of one unit of the cluster
ExistingCapMW_OneUnit(r) == r.Cap_size

\* line 3003
ExistingCapMW(r) == RMul(r.Cap_size, Num(r.num_units))

\* lines 3003-3007; unmodified_cap_size exists only if the capacity was derated
AddExistingCap(t, st) ==
    [i \in DOMAIN t |->
        LET row == AddCol(t[i], "Existing_Cap_MW", ExistingCapMW(t[i]))
        IN  IF DerateCapacity(st)
            THEN AddCol(row, "unmodified_existing_cap_mw",
                        RMul(row.unmodified_cap_size, Num(row.num_units)))
            ELSE row]

\* None in the column profile
None == <<>>

\* Series.max()
RECURSIVE RMax(_)
RMax(x) ==
    IF Len(x) = 1 THEN x[1]
    ELSE IF RLt(RMax(Tail(x)), x[1]) THEN x[1] ELSE RMax(Tail(x))

\* what pd.concat puts where a table lacks a column.  In the column of
\* profiles the missing value is written None: line 3162 treats both alike.
Missing(c) == IF c = "profile" THEN None ELSE NaN

\* pd.concat of tables with different columns: the union of the columns
ConcatTables(a, b) ==
    LET both == a \o b
        cols == UNION {DOMAIN both[i] : i \in DOMAIN both}
    IN  [i \in DOMAIN both |->
            [c \in cols |-> IF c \in DOMAIN both[i] THEN both[i][c] ELSE Missing(c)]]

\* add_dg_resources, lines 2327-2366: one row per region of the profiles
\* (make_distributed_gen_profiles, powergenome.load_profiles)
add_dg_resources(profiles, gen_df) ==
    ConcatTables(gen_df,
                 [i \in DOMAIN profiles |->
                     [technology |-> "distributed_generation",
                      region |-> profiles[i].region,
                      cluster |-> 1,
                      Existing_Cap_MW |-> RoundTo(RMax(profiles[i].mw), 1),
                      profile |-> [h \in DOMAIN profiles[i].mw |->
                                      RoundTo(RDiv(profiles[i].mw[h], RMax(profiles[i].mw)),
                                              1000)]]])

\* lines 3023-3034
AddDistributedGeneration(t, st, profiles) ==
    IF "dg_as_resource" \in DOMAIN st /\ st.dg_as_resource
    THEN add_dg_resources(profiles, t)
    ELSE [i \in DOMAIN t |-> AddCol(t[i], "profile", None)]

(***************************************************************************)
(* Strings.  The functions of str that the code applies to technology and  *)
(* fuel names work on the characters of a string, so the names that are    *)
(* matched are spelled out as sequences of characters.                     *)
(***************************************************************************)
UpperCase ==
    <<"A", "B", "C", "D", "E", "F", "G", "H", "I", "J", "K", "L", "M",
      "N", "O", "P", "Q", "R", "S", "T", "U", "V", "W", "X", "Y", "Z">>

LowerCase ==
    <<"a", "b", "c", "d", "e", "f", "g", "h", "i", "j", "k", "l", "m",
      "n", "o", "p", "q", "r", "s", "t", "u", "v", "w", "x", "y", "z">>

\* str.lower()
Lower(s) ==
    [i \in DOMAIN s |->
        IF \E n \in DOMAIN UpperCase : UpperCase[n] = s[i]
        THEN LowerCase[CHOOSE n \in DOMAIN UpperCase : UpperCase[n] = s[i]]
        ELSE s[i]]

\* re.sub(c, "", s) and str.replace(c, "") for a single character c
Remove(s, c) == SelectSeq(s, LAMBDA x : x # c)

\* the match of the regular expression ^prefix, for a prefix of plain characters
StartsWith(s, prefix) ==
    /\ Len(prefix) <= Len(s)
    /\ SubSeq(s, 1, Len(prefix)) = prefix

\* str.contains(sub) for a pattern of plain characters
Contains(s, sub) ==
    \E i \in 1..(Len(s) - Len(sub) + 1) : SubSeq(s, i, i + Len(sub) - 1) = sub

\* str.contains(sub, case=False)
ContainsNoCase(s, sub) == Contains(Lower(s), Lower(sub))

\* the characters of the strings the model matches against each other
Chars(s) ==
    CASE s = "Conventional Steam Coal" ->
            <<"C", "o", "n", "v", "e", "n", "t", "i", "o", "n", "a", "l", " ", "S",
              "t", "e", "a", "m", " ", "C", "o", "a", "l">>
      [] s = "Natural Gas Fired Combined Cycle" ->
            <<"N", "a", "t", "u", "r", "a", "l", " ", "G", "a", "s", " ", "F", "i",
              "r", "e", "d", " ", "C", "o", "m", "b", "i", "n", "e", "d", " ", "C",
              "y", "c", "l", "e">>
      [] s = "LandbasedWind_Class1_Mid" ->
            <<"L", "a", "n", "d", "b", "a", "s", "e", "d", "W", "i", "n", "d", "_",
              "C", "l", "a", "s", "s", "1", "_", "M", "i", "d">>
      [] s = "OffShoreWind_Class1_Mid" ->
            <<"O", "f", "f", "S", "h", "o", "r", "e", "W", "i", "n", "d", "_", "C",
              "l", "a", "s", "s", "1", "_", "M", "i", "d">>
      [] s = "distributed_generation" ->
            <<"d", "i", "s", "t", "r", "i", "b", "u", "t", "e", "d", "_", "g", "e",
              "n", "e", "r", "a", "t", "i", "o", "n">>
      [] s = "LandbasedWind" ->
            <<"L", "a", "n", "d", "b", "a", "s", "e", "d", "W", "i", "n", "d">>
      [] s = "landbased_wind" ->
            <<"l", "a", "n", "d", "b", "a", "s", "e", "d", "_", "w", "i", "n", "d">>
      [] s = "Landbased" ->
            <<"L", "a", "n", "d", "b", "a", "s", "e", "d">>
      [] s = "OffShoreWind" ->
            <<"O", "f", "f", "S", "h", "o", "r", "e", "W", "i", "n", "d">>
      [] s = "Wind" ->
            <<"W", "i", "n", "d">>
      [] s = "Natural Gas" ->
            <<"N", "a", "t", "u", "r", "a", "l", " ", "G", "a", "s">>
      [] s = "NaturalGas_CC_Mid" ->
            <<"N", "a", "t", "u", "r", "a", "l", "G", "a", "s", "_", "C", "C", "_",
              "M", "i", "d">>
      [] s = "Coal_New_Mid" ->
            <<"C", "o", "a", "l", "_", "N", "e", "w", "_", "M", "i", "d">>
      [] s = "conventional steam coal" ->
            <<"c", "o", "n", "v", "e", "n", "t", "i", "o", "n", "a", "l", " ", "s",
              "t", "e", "a", "m", " ", "c", "o", "a", "l">>
      [] s = "natural gas fired combined cycle" ->
            <<"n", "a", "t", "u", "r", "a", "l", " ", "g", "a", "s", " ", "f", "i",
              "r", "e", "d", " ", "c", "o", "m", "b", "i", "n", "e", "d", " ", "c",
              "y", "c", "l", "e">>
      [] s = "NaturalGas_CC" ->
            <<"N", "a", "t", "u", "r", "a", "l", "G", "a", "s", "_", "C", "C">>
      [] s = "Coal" ->
            <<"C", "o", "a", "l">>
      [] s = "Coal_CCS90_Mid" ->
            <<"C", "o", "a", "l", "_", "C", "C", "S", "9", "0", "_", "M", "i", "d">>
      [] s = "coal_ccs90_mid" ->
            <<"c", "o", "a", "l", "_", "c", "c", "s", "9", "0", "_", "m", "i", "d">>
      [] s = "Coal_CCS90" ->
            <<"C", "o", "a", "l", "_", "C", "C", "S", "9", "0">>
      [] s = "coal_ccs90" ->
            <<"c", "o", "a", "l", "_", "c", "c", "s", "9", "0">>
      [] s = "Coal_New" ->
            <<"C", "o", "a", "l", "_", "N", "e", "w">>
      [] s = "coal" ->
            <<"c", "o", "a", "l">>
      [] s = "naturalgas" ->
            <<"n", "a", "t", "u", "r", "a", "l", "g", "a", "s">>
      [] s = "reference" ->
            <<"r", "e", "f", "e", "r", "e", "n", "c", "e">>
      [] s = "mountain" ->
            <<"m", "o", "u", "n", "t", "a", "i", "n">>
      [] s = "pacific" ->
            <<"p", "a", "c", "i", "f", "i", "c">>
      [] s = "R1" ->
            <<"R", "1">>
      [] s = "R2" ->
            <<"R", "2">>
      [] s = "R3" ->
            <<"R", "3">>
      [] s = "None" ->
            <<"N", "o", "n", "e">>

\* mutant: the key anywhere in the name
TagMatches_Anywhere(key, technology) ==
    ContainsNoCase(Remove(Chars(technology), "_"), Remove(Chars(key), "_"))

\* lines 1334-1335 and 1347-1348: the regular expression ^key on the name
\* without underscores, case ignored
TagMatches(key, technology) ==
    StartsWith(Lower(Remove(Chars(technology), "_")), Lower(Remove(Chars(key), "_")))

\* lines 1346-1349: the items of the tag's dictionary in their order, each
\* writing its value on the rows it matches
RECURSIVE ApplyTagValues(_, _, _)
ApplyTagValues(value, items, technology) ==
    IF items = <<>> THEN value
    ELSE ApplyTagValues(IF TagMatches(Head(items)[1], technology)
                        THEN Head(items)[2] ELSE value,
                        Tail(items), technology)

\* lines 1337-1351: the default, then the values of model_tag_values; a tag
\* without values keeps the default (KeyError caught at line 1350).  A
\* dictionary of tag values is written as the sequence of its items.
TagValue(st, tag_col, technology) ==
    LET default == IF "default_model_tag" \in DOMAIN st THEN st.default_model_tag ELSE 0
    IN  IF "model_tag_values" \in DOMAIN st /\ tag_col \in DOMAIN st.model_tag_values
        THEN ApplyTagValues(default, st.model_tag_values[tag_col], technology)
        ELSE default

RECURSIVE AddTagColumns(_, _, _)
AddTagColumns(r, st, n) ==
    IF n > Len(st.model_tag_names) THEN r
    ELSE AddTagColumns(AddCol(r, st.model_tag_names[n],
                              TagValue(st, st.model_tag_names[n], r.technology)),
                       st, n + 1)

\* line 1360: (df["region"] == region) & mask
RegionalMask(r, region, tech) == r.region = region /\ TagMatches(tech, r.technology)

\* lines 1354-1360: the items of flatten(regional_tag_values), each a
\* (region, tag, technology, value), in their order.  Assigning to a column
\* the table does not have creates it, with NaN on the rows not selected.
RECURSIVE ApplyRegionalTags(_, _)
ApplyRegionalTags(r, items) ==
    IF items = <<>> THEN r
    ELSE LET region == Head(items)[1]
             tag_col == Head(items)[2]
             tech == Head(items)[3]
             tag_value == Head(items)[4]
             hit == RegionalMask(r, region, tech)
         IN  ApplyRegionalTags(
                 IF tag_col \in DOMAIN r
                 THEN IF hit THEN [r EXCEPT ![tag_col] = tag_value] ELSE r
                 ELSE AddCol(r, tag_col, IF hit THEN tag_value ELSE NaN),
                 Tail(items))

\* add_genx_model_tags, lines 1314-1362
add_genx_model_tags(t, st) ==
    [i \in DOMAIN t |->
        ApplyRegionalTags(AddTagColumns(t[i], st, 1),
                          IF "regional_tag_values" \in DOMAIN st
                          THEN st.regional_tag_values ELSE <<>>)]

\* the order of the strings that sort_values compares
SortedNames ==
    <<"Conventional Steam Coal", "LandbasedWind_Class1_Mid",
      "Natural Gas Fired Combined Cycle", "OffShoreWind_Class1_Mid",
      "R1", "R2", "distributed_generation">>

NameRank(x) == CHOOSE n \in DOMAIN SortedNames : SortedNames[n] = x

RegionTechLess(a, b) ==
    \/ NameRank(a.region) < NameRank(b.region)
    \/ a.region = b.region /\ NameRank(a.technology) < NameRank(b.technology)

\* sort_values(["region", "technology"]): rows of equal keys keep their order
RECURSIVE InsertRow(_, _)
InsertRow(t, r) ==
    IF t = <<>> THEN <<r>>
    ELSE IF RegionTechLess(Head(t), r) THEN <<Head(t)>> \o InsertRow(Tail(t), r)
         ELSE <<r>> \o t

RECURSIVE SortValues(_)
SortValues(t) == IF t = <<>> THEN <<>> ELSE InsertRow(SortValues(Tail(t)), Head(t))

\* snake_case_col (powergenome.util): lower case, words joined by "_"
snake_case_col(technology) ==
    CASE technology = "Conventional Steam Coal" -> "conventional_steam_coal"
      [] technology = "Natural Gas Fired Combined Cycle" -> "natural_gas_fired_combined_cycle"
      [] technology = "LandbasedWind_Class1_Mid" -> "landbasedwind_class1_mid"
      [] technology = "OffShoreWind_Class1_Mid" -> "offshorewind_class1_mid"
      [] technology = "distributed_generation" -> "distributed_generation"

AddResource(t) ==
    [i \in DOMAIN t |-> AddCol(t[i], "Resource", snake_case_col(t[i].technology))]

\* lines 2959-3055 on the concatenated clusters.  The settings of the model
\* name no energy_storage_duration, region_wind_pv_cap_fn or RESOURCE_GROUPS;
\* startup_fuel, add_fuel_labels and startup_nonfuel_costs add columns of
\* their own, which nothing modelled here reads, and are left out.
FinishResults(t, st, cf, profiles, sorted) ==
    LET renamed == RenameResults(t, st)
        merged == IF HasCapacityFactorTechs(st)
                  THEN MergeCapacityFactors(renamed, cf, 1) ELSE renamed
        derated == IF HasCapacityFactorTechs(st) /\ DerateCapacity(st)
                   THEN Derate(merged, st) ELSE merged
        capped == AddExistingCap(Round3(derated), st)
        tagged == add_genx_model_tags(AddDistributedGeneration(capped, st, profiles), st)
    IN  AddResource(IF sorted THEN SortValues(tagged) ELSE tagged)

\* line 3004 reads unmodified_cap_size, which line 2985 writes only inside the
\* branch of capacity_factor_techs
FinishRaises(st) == DerateCapacity(st) /\ ~HasCapacityFactorTechs(st)

\* add_transmission_inv_cost, lines 2276-2320, without use_total
add_transmission_inv_cost(t) ==
    [i \in DOMAIN t |->
        LET columns == SelectSeq([n \in DOMAIN TRANSMISSION_TYPES |->
                                     InvMwyr(TRANSMISSION_TYPES[n])],
                                 LAMBDA c : c \in DOMAIN t[i])
            cost == RSum([n \in DOMAIN columns |-> t[i][columns[n]]])
        IN  [AddCol(t[i], "plant_inv_cost_mwyr", t[i].Inv_Cost_per_MWyr)
                EXCEPT !.Inv_Cost_per_MWyr = RAdd(t[i].Inv_Cost_per_MWyr, cost)]]

\* lines 3110-3141 on the table atb_new_generators (powergenome.nrelatb)
\* returns; no capacity_limit_spur_fn and no demand_response_fn
NewGenerators(atb, st, costs, sorted) ==
    LET tagged == add_genx_model_tags(atb, st)
        ordered == IF sorted THEN SortValues(tagged) ELSE tagged
        costed == calculate_transmission_inv_cost(ordered, st, costs)
    IN  [error |-> costed.error,
         new_generators |-> IF costed.error = ""
                            THEN AddResource(add_transmission_inv_cost(costed.resource_df))
                            ELSE <<>>]

\* np.mean of a profile; isinstance(p, Sequence or ndarray) is false for None
IsProfile(p) == p # None

VariableCF(p) == IF IsProfile(p) THEN RDiv(RSumSeq(p, 1), Num(Len(p))) ELSE Num(0)

\* mutant: numbered from 0, as np.arange gives them
R_ID_FromZero(i) == i - 1

\* line 3171: np.arange(len(all_resources)) + 1, for the row at position i
R_ID(i) == i

\* lines 3152-3171
AllResources(existing, new) ==
    LET rounded == Round3(ConcatTables(existing, new))
    IN  [i \in DOMAIN rounded |->
            LET cf == AddCol(rounded[i], "variable_CF", VariableCF(rounded[i].profile))
                vre == IF cf.VRE = 1 THEN [cf EXCEPT !.Min_Power = Num(0)] ELSE cf
            IN  AddCol(vre, "R_ID", R_ID(i))]

(***************************************************************************)
(* Inputs of create_all_generators: operating units in ascending profile   *)
(* order, the number of gas clusters, the capacity factor and derating     *)
(* settings, distributed generation or none, and a table of new-build      *)
(* resources with spur line miles.  The method is called MaxRuns times on  *)
(* the same object.                                                        *)
(***************************************************************************)
MaxRunRows == 3     \* rows of the unit table of a run

MaxRunK == 2        \* largest number of gas clusters of a run

MaxRuns == 2        \* calls of create_all_generators

\* the units that operate beyond the model year: gas plants 1 to 3, coal plant 4
RunProfiles ==
    SelectSeq(UnitProfiles, LAMBDA r : r.retirement_year = RetirementYears[3])

\* gentype_region_capacity_factor (external): one row per region and technology
CapacityFactors ==
    <<[region |-> "R1", technology |-> Technologies[2], capacity_factor |-> <<1, 3>>]>>

\* make_distributed_gen_profiles (powergenome.load_profiles): hourly MW by region
DGProfiles == <<[region |-> "R1", mw |-> <<Num(3), <<13, 2>>, Num(1)>>]>>

\* capacity_factor_techs and derate_capacity: neither, the factors alone,
\* both, derating without the factors
DerateChoices ==
    {NoDict,
     [k \in {"capacity_factor_techs"} |-> <<Technologies[2]>>],
     [capacity_factor_techs |-> <<Technologies[2]>>, derate_capacity |-> TRUE,
      derate_techs |-> <<Technologies[2]>>],
     [derate_capacity |-> TRUE, derate_techs |-> <<Technologies[2]>>]}

Merged(a, b) == [k \in DOMAIN a \cup DOMAIN b |-> IF k \in DOMAIN b THEN b[k] ELSE a[k]]

RunSettings(k, derate, dg) ==
    Merged(Merged([model_year |-> 2030,
                   model_regions |-> <<"R1">>,
                   capacity_col |-> "capacity_mw",
                   num_clusters |->
                       [t \in Range(Technologies) |-> IF t = Technologies[2] THEN k ELSE 1],
                   alt_num_clusters |-> NoDict,
                   alt_cluster_method |-> NoDict,
                   model_tag_names |-> <<"VRE">>,
                   model_tag_values |-> [VRE |-> <<<<"LandbasedWind", 1>>>>],
                   transmission_investment_cost |->
                       <<<<"spur", FullParams([kind |-> "dict", value |-> RegionCapex])>>>>],
                  derate),
           IF dg THEN [dg_as_resource |-> TRUE] ELSE NoDict)

\* a new-build resource: wind with a profile, in region R2 or R1
NewBuild(region) ==
    [region |-> region,
     technology |-> TxTechnologies[2],
     cluster |-> 1,
     Cap_size |-> Num(1),
     Heat_Rate_MMBTU_per_MWh |-> Num(0),
     Min_Power |-> <<1, 10>>,
     Inv_Cost_per_MWyr |-> Num(1000),
     spur_miles |-> TxMiles.spur,
     profile |-> <<<<1, 4>>, <<1, 2>>, Num(1)>>]

NewBuildTables ==
    {<<NewBuild(TxRegions[2])>>, <<NewBuild(TxRegions[2]), NewBuild(TxRegions[1])>>}

InitAll ==
    \E ps \in Ascending(MaxRunRows, Len(RunProfiles)) :
    \E k \in 1..MaxRunK :
    \E derate \in DerateChoices :
    \E dg \in BOOLEAN, sorted \in BOOLEAN, current \in BOOLEAN :
    \E atb \in NewBuildTables :
        \* without current_gens none of the inputs of the existing units is read
        /\ ~current => /\ ps = [i \in 1..MaxRunRows |-> 1]
                       /\ k = 1
                       /\ derate = NoDict
                       /\ ~dg
        /\ pc = "start"
        /\ error = ""
        /\ units_model = [i \in 1..MaxRunRows |-> RunProfiles[ps[i]]]
        /\ settings = RunSettings(k, derate, dg)
        /\ num_clusters = <<>> /\ region_tech_grouped = <<>> /\ todo = <<>>
        /\ retired = <<>> /\ unit_list = <<>> /\ cluster_list = <<>>
        /\ results = <<>> /\ log = <<>> /\ fitted = <<>>
        /\ capacity_factors = CapacityFactors
        /\ dg_profiles = DGProfiles
        /\ current_gens = current
        /\ sort_gens = sorted
        /\ existing_resources = <<>>
        /\ new_resources = <<>>
        /\ all_resources = <<>>
        /\ run = 0
        /\ first_run = <<>>
        /\ resource_df = atb
        /\ offshore_spur_costs = [given |-> FALSE]
        /\ fuel_prices = <<>>
        /\ ReconIdle /\ HRIdle /\ LoadIdle

\* line 3147: create_all_generators is entered; its earlier result, if any, is
\* kept aside for comparison.  The steps of create_region_technology_clusters
\* before the clustering are functions of the inputs and are not repeated
\* here: a run starts from units_model.
StartRun ==
    /\ pc = "start" \/ (pc = "all_done" /\ run < MaxRuns)
    /\ run' = run + 1
    /\ first_run' = IF run = 1 THEN all_resources ELSE first_run
    /\ pc' = IF current_gens THEN "om_added" ELSE "existing_done"
    /\ UNCHANGED <<error, reconVars, hrVars, units_model, clusterVars, capacity_factors,
                   dg_profiles, current_gens, sort_gens, existing_resources, new_resources,
                   all_resources, txVars, loadVars>>

\* lines 2959-3096 and the assignment of line 3148
FinishClusters ==
    /\ pc = "clustered"
    /\ IF FinishRaises(settings)
       THEN /\ pc' = "failed"
            /\ error' = "KeyError"
            /\ UNCHANGED <<results, existing_resources>>
       ELSE /\ pc' = "existing_done"
            /\ error' = error
            /\ results' = FinishResults(results, settings, capacity_factors, dg_profiles,
                                        sort_gens)
            /\ existing_resources' = results'
    /\ UNCHANGED <<reconVars, hrVars, units_model, settings, num_clusters,
                   region_tech_grouped, todo, retired, unit_list, cluster_list, log, fitted,
                   capacity_factors, dg_profiles, current_gens, sort_gens, new_resources,
                   all_resources, run, first_run, txVars, loadVars>>

\* line 3150: create_new_generators
CreateNewGenerators ==
    /\ pc = "existing_done"
    /\ LET out == NewGenerators(resource_df, settings, offshore_spur_costs, sort_gens)
       IN  IF out.error # ""
           THEN /\ pc' = "failed"
                /\ error' = out.error
                /\ new_resources' = new_resources
           ELSE /\ pc' = "new_done"
                /\ error' = error
                /\ new_resources' = out.new_generators
    /\ UNCHANGED <<reconVars, hrVars, units_model, clusterVars, capacity_factors,
                   dg_profiles, current_gens, sort_gens, existing_resources, all_resources,
                   run, first_run, txVars, loadVars>>

\* lines 3152-3178
ConcatAllResources ==
    /\ pc = "new_done"
    /\ all_resources' = AllResources(existing_resources, new_resources)
    /\ pc' = "all_done"
    /\ UNCHANGED <<error, reconVars, hrVars, units_model, clusterVars, capacity_factors,
                   dg_profiles, current_gens, sort_gens, existing_resources, new_resources,
                   run, first_run, txVars, loadVars>>

NextAll ==
    \/ StartRun
    \/ PrepareClusters
    \/ ClusterKMeans
    \/ ConcatResults
    \/ FinishClusters
    \/ CreateNewGenerators
    \/ ConcatAllResources

SpecAll == InitAll /\ [][NextAll]_vars

(***************************************************************************)
(* Properties of the resource tables.                                      *)
(***************************************************************************)
ExistingDone == current_gens /\ pc \in {"existing_done", "new_done", "all_done"}

\* the cluster a row of existing_resources was computed from
ClusterOf(r) ==
    CHOOSE c \in Range(Concat(cluster_list)) :
        /\ c.region = r.region
        /\ c.technology = r.technology
        /\ c.cluster = r.cluster

IsCluster(r) == r.technology # "distributed_generation"

Derated(r) ==
    /\ "capacity_factor_techs" \in DOMAIN settings
    /\ "derate_capacity" \in DOMAIN settings
    /\ r.technology \in Range(settings.derate_techs)

\* the capacity factor of the row's region and technology
CapacityFactorOf(r) ==
    LET hits == {j \in DOMAIN capacity_factors :
                    /\ capacity_factors[j].region = r.region
                    /\ capacity_factors[j].technology = r.technology}
    IN  IF hits = {} THEN NaN ELSE capacity_factors[CHOOSE j \in hits : TRUE].capacity_factor

\* x is v rounded to three decimals: a multiple of 1/1000 at most 1/2000 away
\* from v
IsRounded3(x, v) ==
    /\ 1000 % x[2] = 0
    /\ 2000 * Abs(x[1] * v[2] - v[1] * x[2]) <= x[2] * v[2]

SameResource(a, b) ==
    /\ a.region = b.region
    /\ a.technology = b.technology
    /\ a.cluster = b.cluster
    /\ a.Resource = b.Resource

\* C14: the table create_all_generators returns holds the rows of
\* existing_resources followed by the rows of new_resources, and the row at
\* position i has R_ID i, so R_ID runs from 1 to the number of rows and every
\* existing row has a smaller R_ID than every new-build row; without
\* current_gens the table holds the new-build rows alone.
C14_SequentialIdsAfterConcat ==
    pc = "all_done" =>
        /\ Len(all_resources) = Len(existing_resources) + Len(new_resources)
        /\ \A i \in DOMAIN all_resources : all_resources[i].R_ID = i
        /\ \A i \in DOMAIN existing_resources :
               SameResource(all_resources[i], existing_resources[i])
        /\ \A j \in DOMAIN new_resources :
               SameResource(all_resources[Len(existing_resources) + j], new_resources[j])
        /\ ~current_gens => existing_resources = <<>>

\* existing clusters and two new-build resources in one table
C14_Witness ==
    /\ pc = "all_done"
    /\ current_gens
    /\ Len(existing_resources) >= 2
    /\ Len(new_resources) = 2
    /\ all_resources[Len(all_resources)].R_ID = Len(existing_resources) + 2

C27_BackfillKeepsPresentCapacity ==
    pc = "supplemented" =>
        /\ Len(gens_860_model) = Len(SourceRows)
        /\ \A k \in DOMAIN gens_860_model :
               NotNull(SourceRows[k].winter_capacity_mw)
                   => gens_860_model[k].winter_capacity_mw
                          = SourceRows[k].winter_capacity_mw

(***************************************************************************)
(* Capacity through the clustering, the reduction of the cluster count on  *)
(* the second k-means path and the split of the units at the model year.   *)
(***************************************************************************)
\* the units of a group that have not retired by the model year
NonRetired(key) ==
    Loc(units_model,
        {i \in DOMAIN units_model :
            /\ units_model[i].model_region = key[1]
            /\ units_model[i].technology = key[2]
            /\ ~RLe(units_model[i].retirement_year, Num(settings.model_year))})

\* C23: for every group with k > 0 whose unit-groups all have a heat rate, the
\* cluster capacities times their numbers of units add up to the capacities
\* of the group's unit-groups, which add up to the capacities of the group's
\* units that have not retired.
C23_ClusteringPreservesCapacity ==
    Started =>
        \A j \in DOMAIN unit_list :
            LET g == unit_list[j]
                rows == ClusterRows(Concat(cluster_list), Keys[j])
                units == NonRetired(Keys[j])
            IN  (/\ num_clusters[Keys[j][1]][Keys[j][2]] > 0
                 /\ \A i \in DOMAIN g : NotNull(g[i].heat_rate_mmbtu_mwh)) =>
                    /\ RSumSeq([n \in DOMAIN rows |->
                                   RMul(rows[n].capacity_mw, Num(rows[n].num_units))], 1)
                           = SumOver(g, DOMAIN g, "capacity_mw", "")
                    /\ SumOver(g, DOMAIN g, "capacity_mw", "")
                           = SumOver(units, DOMAIN units, "capacity_mw", "")

\* a finished run with a cluster of two unit-groups of different capacity, one
\* of them a unit of two generators
C23_Witness ==
    /\ pc = "clustered"
    /\ \E j \in DOMAIN unit_list :
           /\ num_clusters[Keys[j][1]][Keys[j][2]] > 0
           /\ Len(NonRetired(Keys[j])) > Len(unit_list[j])
           /\ \E n \in DOMAIN results :
                  /\ results[n].region = Keys[j][1]
                  /\ results[n].technology = Keys[j][2]
                  /\ results[n].num_units = 2
                  /\ \E a, b \in Members(j, results[n].cluster) :
                         unit_list[j][a].capacity_mw # unit_list[j][b].capacity_mw

\* C24: when alt_cluster_method is set but does not cover a pair with n
\* unit-groups and k > n configured clusters, the pair is clustered into n
\* clusters of one unit-group each; the run does not fail on it.
C24_ReductionOnEveryKMeansPath ==
    Started =>
        /\ \A j \in DOMAIN unit_list :
               LET k == Configured(Keys[j])
                   n == Len(UnitGroups(Keys[j]))
                   rows == ClusterRows(Concat(cluster_list), Keys[j])
               IN  (/\ DOMAIN settings.alt_cluster_method # {}
                    /\ ByKMeans(Keys[j])
                    /\ k > n) =>
                       /\ Len(rows) = n
                       /\ \A i \in DOMAIN rows : rows[i].num_units = 1
        /\ (pc = "failed" /\ todo # <<>>) =>
               ~(/\ DOMAIN settings.alt_cluster_method # {}
                 /\ ByKMeans(Head(todo))
                 /\ Configured(Head(todo)) > Len(UnitGroups(Head(todo))))

InClusteringInput(u) == \E m \in DOMAIN region_tech_grouped : region_tech_grouped[m] = u

InRetired(u) == \E m \in DOMAIN retired : retired[m] = u

\* C25: every unit of a configured technology is in exactly one of the input
\* of the clustering and the retired set, a unit without a retirement year
\* included.
C25_ClusteredOrRetired ==
    Started =>
        \A i \in DOMAIN units_model :
            units_model[i].technology \in DOMAIN settings.num_clusters =>
                InClusteringInput(units_model[i]) # InRetired(units_model[i])

(***************************************************************************)
(* The generator table after drop_duplicates (line 2668).                  *)
(***************************************************************************)
\* C26: after the reconciliation of the generator records, every
\* (plant_id_eia, generator_id) has at most one row in gens_860_model, also
\* when the yearly snapshots of the generator differ in an attribute.
C26_OneRowPerGenerator ==
    pc = "cc_modified" =>
        \A i, j \in DOMAIN gens_860_model :
            (/\ gens_860_model[i].plant_id_eia = gens_860_model[j].plant_id_eia
             /\ gens_860_model[i].generator_id = gens_860_model[j].generator_id)
                => i = j

(***************************************************************************)
(* add_genx_model_tags on its own (SpecTags): a table of resources of two  *)
(* regions, tag values with keys that differ from the technology names in  *)
(* case and underscores, that overlap, or that occur inside a name only,   *)
(* and regional overrides.                                                 *)
(***************************************************************************)
MaxTagRows == 2

TagRegions == <<"R1", "R2">>

TagTechnologies ==
    <<"LandbasedWind_Class1_Mid", "Natural Gas Fired Combined Cycle",
      "OffShoreWind_Class1_Mid">>

TagRow(p) ==
    [region |-> TagRegions[((p - 1) \div Len(TagTechnologies)) + 1],
     technology |-> TagTechnologies[((p - 1) % Len(TagTechnologies)) + 1],
     cluster |-> 1]

\* model_tag_values: absent, for one tag only, with two keys that match the
\* same technology, and with a key that occurs inside a name
ModelTagValues ==
    {NoDict,
     [model_tag_values |-> [VRE |-> <<<<"landbased_wind", 1>>>>]],
     [model_tag_values |->
         [VRE |-> <<<<"LandbasedWind", 1>>, <<"Landbased", 2>>, <<"OffShoreWind", 1>>>>,
          THERM |-> <<<<"Natural Gas", 1>>>>]],
     [model_tag_values |-> [VRE |-> <<<<"Wind", 1>>>>, THERM |-> <<>>]]}

\* regional_tag_values, as the items of its flattened dictionary
RegionalTagValues ==
    {NoDict,
     [regional_tag_values |-> <<<<"R1", "VRE", "OffShoreWind", 3>>>>],
     [regional_tag_values |->
         <<<<"R2", "THERM", "landbased_wind", 4>>, <<"R2", "VRE", "LandbasedWind", 0>>>>]}

DefaultTags == {NoDict, [default_model_tag |-> 9]}

InitTags ==
    \E ps \in Ascending(MaxTagRows, Len(TagRegions) * Len(TagTechnologies)) :
    \E values \in ModelTagValues, regional \in RegionalTagValues, default \in DefaultTags :
        /\ pc = "tags_start"
        /\ error = ""
        /\ df = [i \in 1..MaxTagRows |-> TagRow(ps[i])]
        /\ canceled_860m = <<>>
        /\ retired_860m = <<>>
        /\ canceled = <<>>
        /\ retired_rows = <<>>
        /\ settings =
               Merged(Merged(Merged([model_tag_names |-> <<"VRE", "THERM">>], values),
                             regional),
                      default)
        /\ units_model = <<>>
        /\ HRIdle
        /\ num_clusters = <<>> /\ region_tech_grouped = <<>> /\ todo = <<>>
        /\ retired = <<>> /\ unit_list = <<>> /\ cluster_list = <<>>
        /\ results = <<>> /\ log = <<>> /\ fitted = <<>>
        /\ OtherIdle

\* the call of add_genx_model_tags (lines 3046 and 3114): the table is changed
\* in place and returned
AddGenxModelTags ==
    /\ pc = "tags_start"
    /\ df' = add_genx_model_tags(df, settings)
    /\ pc' = "tagged"
    /\ UNCHANGED <<error, canceled_860m, retired_860m, canceled, retired_rows, hrVars,
                   units_model, clusterVars, otherVars>>

NextTags == AddGenxModelTags

SpecTags == InitTags /\ [][NextTags]_vars

\* the name starts with the key, underscores and case aside
StartsWithKey(key, technology) ==
    LET k == Lower(Remove(Chars(key), "_"))
        t == Lower(Remove(Chars(technology), "_"))
    IN  /\ Len(k) <= Len(t)
        /\ \A n \in DOMAIN k : k[n] = t[n]

\* the keys of a tag, in the order of the dictionary
TagItems(tag_col) ==
    IF "model_tag_values" \in DOMAIN settings /\ tag_col \in DOMAIN settings.model_tag_values
    THEN settings.model_tag_values[tag_col]
    ELSE <<>>

RegionalItems ==
    IF "regional_tag_values" \in DOMAIN settings THEN settings.regional_tag_values ELSE <<>>

\* the global value of a tag for a technology: the value of the last key the
\* name starts with, the default when it starts with none
GlobalTag(tag_col, technology) ==
    LET items == TagItems(tag_col)
        hits == {n \in DOMAIN items : StartsWithKey(items[n][1], technology)}
    IN  IF hits = {}
        THEN IF "default_model_tag" \in DOMAIN settings THEN settings.default_model_tag ELSE 0
        ELSE items[CHOOSE n \in hits : \A m \in hits : m <= n][2]

\* the overrides that name the row's region, the tag and a key the row's
\* technology starts with
Overrides(r, tag_col) ==
    {n \in DOMAIN RegionalItems :
        /\ RegionalItems[n][1] = r.region
        /\ RegionalItems[n][2] = tag_col
        /\ StartsWithKey(RegionalItems[n][3], r.technology)}

\* C30: add_genx_model_tags gives every row a value in every configured tag
\* column: the value of the key its technology starts with (underscores and
\* case ignored), else the default.  A regional override replaces that value
\* on the rows of its region whose technology matches, and on no other row and
\* in no other column; the rows and their other columns stay as they were.
C30_TagsByPrefixAndRegion ==
    [][AddGenxModelTags =>
          /\ Len(df') = Len(df)
          /\ \A i \in DOMAIN df :
                 /\ DOMAIN df'[i] = DOMAIN df[i] \cup Range(settings.model_tag_names)
                 /\ \A c \in DOMAIN df[i] : df'[i][c] = df[i][c]
                 /\ \A tag_col \in Range(settings.model_tag_names) :
                        LET over == Overrides(df[i], tag_col)
                        IN  IF over = {}
                            THEN df'[i][tag_col] = GlobalTag(tag_col, df[i].technology)
                            ELSE df'[i][tag_col] =
                                     RegionalItems[CHOOSE n \in over :
                                                      \A m \in over : m <= n][4]]_vars

\* a tagged table where an override changed the tag of a wind resource of its
\* region and the same technology keeps the global value in the other region
C30_Witness ==
    /\ pc = "tagged"
    /\ \E i, j \in DOMAIN df :
       \E tag_col \in Range(settings.model_tag_names) :
           /\ df[i].technology = df[j].technology
           /\ df[i].region # df[j].region
           /\ Overrides(df[i], tag_col) # {}
           /\ Overrides(df[j], tag_col) = {}
           /\ df[i][tag_col] # df[j][tag_col]
           /\ df[j][tag_col] = GlobalTag(tag_col, df[j].technology)
           /\ df[j][tag_col] # 0

(***************************************************************************)
(* fill_missing_tech_descriptions (lines 102-150) on its own               *)
(* (SpecFillTech): the yearly records of two generators of a plant, in any *)
(* order, with and without a technology description.  Every record has a   *)
(* report date and a generator has one record per year.                    *)
(***************************************************************************)
MaxFillRows == 3

ReportYears == <<2012, 2013, 2014>>

FillDescriptions == <<NA, Technologies[1], Technologies[2]>>

NumFillKeys == Len(GeneratorIds) * Len(ReportYears)

FillRow(k, d) ==
    [plant_id_eia |-> PlantIds[1],
     generator_id |-> GeneratorIds[((k - 1) \div Len(ReportYears)) + 1],
     report_date |-> ReportYears[((k - 1) % Len(ReportYears)) + 1],
     technology_description |-> FillDescriptions[d]]

\* line 136: sort_values(by=date_col)
RECURSIVE InsertByDate(_, _)
InsertByDate(t, r) ==
    IF t = <<>> THEN <<r>>
    ELSE IF Head(t).report_date <= r.report_date
         THEN <<Head(t)>> \o InsertByDate(Tail(t), r)
         ELSE <<r>> \o t

RECURSIVE SortByDate(_)
SortByDate(t) ==
    IF t = <<>> THEN <<>> ELSE InsertByDate(SortByDate(SubSeq(t, 1, Len(t) - 1)), t[Len(t)])

\* the keys of groupby(["plant_id_eia", "generator_id"]) in sorted order
GeneratorKeys(t) ==
    LET all == [n \in 1..(Len(PlantIds) * Len(GeneratorIds)) |->
                   <<PlantIds[((n - 1) \div Len(GeneratorIds)) + 1],
                     GeneratorIds[((n - 1) % Len(GeneratorIds)) + 1]>>]
    IN  SelectSeq(all, LAMBDA k :
                           \E i \in DOMAIN t :
                               t[i].plant_id_eia = k[1] /\ t[i].generator_id = k[2])

\* line 139: fillna(method="bfill") on the descriptions of a group
Bfill(g) ==
    [i \in DOMAIN g |->
        LET later == {j \in DOMAIN g : j > i /\ g[j].technology_description # NA}
        IN  IF g[i].technology_description = NA /\ later # {}
            THEN [g[i] EXCEPT !.technology_description =
                      g[CHOOSE j \in later : \A m \in later : j <= m].technology_description]
            ELSE g[i]]

\* line 143: the test reads df, the sorted input, whose rows the loop has not
\* changed: the groups of a groupby are copies
FailedToFill(sorted) ==
    \E i \in DOMAIN sorted : sorted[i].technology_description = NA

\* fill_missing_tech_descriptions: the table it returns, what it logs and the
\* exception it ends with
fill_missing_tech_descriptions(t) ==
    LET sorted == SortByDate(t)
        keys == GeneratorKeys(sorted)
        df_list == [n \in DOMAIN keys |->
                       Bfill(SelectSeq(sorted, LAMBDA r :
                                                   /\ r.plant_id_eia = keys[n][1]
                                                   /\ r.generator_id = keys[n][2]))]
        filled == Concat(df_list)
    IN  [results |-> filled,
         log |-> IF FailedToFill(sorted)
                 THEN <<[level |-> "WARNING",
                         message |-> "Failed to fill some technology names."]>>
                 ELSE <<>>,
         error |-> IF Len(filled) = Len(t) THEN "" ELSE "AssertionError"]

InitFillTech ==
    \E ks \in [1..MaxFillRows -> 1..NumFillKeys] :
    \E ds \in [1..MaxFillRows -> DOMAIN FillDescriptions] :
        /\ \A i, j \in 1..MaxFillRows : ks[i] = ks[j] => i = j
        /\ pc = "loaded"
        /\ error = ""
        /\ df = [i \in 1..MaxFillRows |-> FillRow(ks[i], ds[i])]
        /\ canceled_860m = <<>>
        /\ retired_860m = <<>>
        /\ canceled = <<>>
        /\ retired_rows = <<>>
        /\ units_model = <<>>
        /\ HRIdle
        /\ ClusterIdle
        /\ OtherIdle

\* line 2646: the generator records are piped through the function
FillMissingTechDescriptions ==
    /\ pc = "loaded"
    /\ LET out == fill_missing_tech_descriptions(df)
       IN  /\ results' = out.results
           /\ log' = log \o out.log
           /\ error' = out.error
           /\ pc' = IF out.error = "" THEN "tech_filled" ELSE "failed"
    /\ UNCHANGED <<reconVars, hrVars, units_model, settings, num_clusters,
                   region_tech_grouped, todo, retired, unit_list, cluster_list, fitted,
                   otherVars>>

NextFillTech == FillMissingTechDescriptions

SpecFillTech == InitFillTech /\ [][NextFillTech]_vars

SameGenerator(a, b) == a.plant_id_eia = b.plant_id_eia /\ a.generator_id = b.generator_id

\* the later records of the generator of row i that have a description
LaterLabelled(i) ==
    {j \in DOMAIN df :
        /\ SameGenerator(df[j], df[i])
        /\ df[j].report_date > df[i].report_date
        /\ df[j].technology_description # NA}

\* the description the record of row i is to come out with
ExpectedDescription(i) ==
    IF df[i].technology_description # NA \/ LaterLabelled(i) = {}
    THEN df[i].technology_description
    ELSE df[CHOOSE j \in LaterLabelled(i) :
                \A m \in LaterLabelled(i) : df[j].report_date <= df[m].report_date]
             .technology_description

FailureLogged ==
    \E n \in DOMAIN log : log[n].message = "Failed to fill some technology names."

\* the description stays as it is when present; a missing one is taken from
\* the nearest later record of the same generator, and stays missing when
\* there is none
FilledFromLaterRecords ==
    /\ Len(results) = Len(df)
    /\ \A i \in DOMAIN df :
           LET out == {n \in DOMAIN results :
                          /\ SameGenerator(results[n], df[i])
                          /\ results[n].report_date = df[i].report_date}
           IN  /\ Cardinality(out) = 1
               /\ \A n \in out : results[n].technology_description = ExpectedDescription(i)

\* C29: fill_missing_tech_descriptions returns as many rows as it received,
\* each missing description filled from the nearest later record of the same
\* generator that has one and left missing when there is none, and it logs
\* the failure to fill exactly when a row without a description remains.
C29_BackfillAndWarning ==
    pc = "tech_filled" =>
        /\ FilledFromLaterRecords
        /\ FailureLogged <=> \E n \in DOMAIN results : results[n].technology_description = NA

(***************************************************************************)
(* startup_nonfuel_costs (lines 217-284), applied to the existing          *)
(* resources and then to the new-build resources with the settings of the  *)
(* object, and once more to the existing resources (SpecStartup).          *)
(* settings["startup_costs_type"] names the dictionary                     *)
(* startup_costs_per_cold_start_mw.  A dictionary that the code walks in   *)
(* order is the sequence of its items.                                     *)
(***************************************************************************)
MaxStartupRows == 2

\* consumer price index by year, relative to 2015
PriceIndex == [y \in {2015, 2019} |-> IF y = 2015 THEN 100 ELSE 110]

\* powergenome.price_adjustment.inflation_price_adjustment
inflation_price_adjustment(price, base_year, target_year) ==
    RMul(price, RDiv(Num(PriceIndex[target_year]), Num(PriceIndex[base_year])))

\* lines 240-248 and 253-262: the costs of a dictionary of the settings,
\* each replaced in the dictionary by its adjusted value
AdjustCosts(costs, usd_year, target_usd_year) ==
    [key \in DOMAIN costs |->
        inflation_price_adjustment(costs[key], usd_year, target_usd_year)]

Get(st, key) == IF key \in DOMAIN st THEN st[key] ELSE 0

\* lines 235-262: the settings after the call; 0 stands for None
AdjustedSettings(st) ==
    LET target_usd_year == Get(st, "target_usd_year")
        vom_usd_year == Get(st, "startup_vom_costs_usd_year")
        startup_costs_usd_year == Get(st, "startup_costs_per_cold_start_usd_year")
        vom == IF target_usd_year # 0 /\ vom_usd_year # 0
               THEN [st EXCEPT !.startup_vom_costs_mw =
                        AdjustCosts(st.startup_vom_costs_mw, vom_usd_year, target_usd_year)]
               ELSE st
    IN  IF target_usd_year # 0 /\ startup_costs_usd_year # 0
        THEN [vom EXCEPT !.startup_costs_per_cold_start_mw =
                 AdjustCosts(st.startup_costs_per_cold_start_mw, startup_costs_usd_year,
                             target_usd_year)]
        ELSE vom

\* lines 266-279: the items of a technology map, each writing the total of
\* its cost key on the rows whose technology contains the name
RECURSIVE ApplyStartupCosts(_, _, _, _)
ApplyStartupCosts(r, items, st, ignore_case) ==
    IF items = <<>> THEN r
    ELSE LET cost_tech == Head(items)[2]
             total_startup_costs ==
                 RAdd(st.startup_vom_costs_mw[cost_tech],
                      st.startup_costs_per_cold_start_mw[cost_tech])
             hit == IF ignore_case
                    THEN ContainsNoCase(Chars(r.technology), Chars(Head(items)[1]))
                    ELSE Contains(Chars(r.technology), Chars(Head(items)[1]))
         IN  ApplyStartupCosts(IF hit
                               THEN [r EXCEPT !.Start_Cost_per_MW = total_startup_costs]
                               ELSE r,
                               Tail(items), st, ignore_case)

\* startup_nonfuel_costs: the table it returns and the settings it leaves
startup_nonfuel_costs(t, st) ==
    LET adjusted == AdjustedSettings(st)
    IN  [df |-> [i \in DOMAIN t |->
                    ApplyStartupCosts(
                        ApplyStartupCosts(AddCol(t[i], "Start_Cost_per_MW", Num(0)),
                                          adjusted.existing_startup_costs_tech_map,
                                          adjusted, TRUE),
                        adjusted.new_build_startup_costs, adjusted, FALSE)],
         settings |-> adjusted]

ExistingTechnologies == Technologies

NewTechnologies == <<"Coal_New_Mid", "NaturalGas_CC_Mid">>

StartupVomCosts == {[coal_large_sub |-> Num(2), gas_cc |-> Num(1)]}

StartupCosts ==
    {[coal_large_sub |-> Num(50), gas_cc |-> Num(30)],
     [coal_large_sub |-> Num(40), gas_cc |-> Num(40)]}

UsdYears == {NoDict} \cup
    {Merged(t, Merged(v, s)) :
        t \in {NoDict, [target_usd_year |-> 2015], [target_usd_year |-> 2019]},
        v \in {NoDict, [startup_vom_costs_usd_year |-> 2015]},
        s \in {NoDict, [startup_costs_per_cold_start_usd_year |-> 2015]}}

StartupSettings(costs, vom, years) ==
    Merged([startup_costs_type |-> "startup_costs_per_cold_start_mw",
            startup_costs_per_cold_start_mw |-> costs,
            startup_vom_costs_mw |-> vom,
            existing_startup_costs_tech_map |->
                <<<<"conventional steam coal", "coal_large_sub">>,
                  <<"natural gas fired combined cycle", "gas_cc">>>>,
            new_build_startup_costs |->
                <<<<"Coal", "coal_large_sub">>, <<"NaturalGas_CC", "gas_cc">>>>],
           years)

ResourceRow(region, technology) == [region |-> region, technology |-> technology, cluster |-> 1]

InitStartup ==
    \E es \in Ascending(MaxStartupRows, Len(ExistingTechnologies)) :
    \E ns \in Ascending(MaxStartupRows, Len(NewTechnologies)) :
    \E costs \in StartupCosts, vom \in StartupVomCosts, years \in UsdYears :
        /\ pc = "fuel_labelled"
        /\ error = ""
        /\ settings = StartupSettings(costs, vom, years)
        /\ results = [i \in 1..MaxStartupRows |-> ResourceRow("R1", ExistingTechnologies[es[i]])]
        /\ new_resources =
               [i \in 1..MaxStartupRows |-> ResourceRow("R1", NewTechnologies[ns[i]])]
        /\ ReconIdle
        /\ HRIdle
        /\ units_model = <<>>
        /\ num_clusters = <<>> /\ region_tech_grouped = <<>> /\ todo = <<>>
        /\ retired = <<>> /\ unit_list = <<>> /\ cluster_list = <<>>
        /\ log = <<>> /\ fitted = <<>>
        /\ capacity_factors = <<>> /\ dg_profiles = <<>>
        /\ current_gens = TRUE /\ sort_gens = FALSE
        /\ existing_resources = <<>> /\ all_resources = <<>>
        /\ run = 0 /\ first_run = <<>>
        /\ TxIdle
        /\ LoadIdle

StartupUnchanged ==
    UNCHANGED <<error, reconVars, hrVars, units_model, num_clusters, region_tech_grouped, todo,
                retired, unit_list, cluster_list, log, fitted, capacity_factors, dg_profiles,
                current_gens, sort_gens, all_resources, run, first_run, txVars, loadVars>>

\* line 3045: the existing resources
StartupCostsExisting ==
    /\ pc = "fuel_labelled"
    /\ LET out == startup_nonfuel_costs(results, settings)
       IN  /\ results' = out.df
           /\ settings' = out.settings
    /\ pc' = "existing_costed"
    /\ UNCHANGED <<new_resources, existing_resources>>
    /\ StartupUnchanged

\* line 3113: the new-build resources
StartupCostsNew ==
    /\ pc = "existing_costed"
    /\ LET out == startup_nonfuel_costs(new_resources, settings)
       IN  /\ new_resources' = out.df
           /\ settings' = out.settings
    /\ pc' = "new_costed"
    /\ UNCHANGED <<results, existing_resources>>
    /\ StartupUnchanged

\* the function called again on the existing resources; existing_resources
\* takes what this call returns
StartupCostsAgain ==
    /\ pc = "new_costed"
    /\ LET out == startup_nonfuel_costs(results, settings)
       IN  /\ existing_resources' = out.df
           /\ settings' = out.settings
    /\ pc' = "costed_again"
    /\ UNCHANGED <<results, new_resources>>
    /\ StartupUnchanged

NextStartup == StartupCostsExisting \/ StartupCostsNew \/ StartupCostsAgain

SpecStartup == InitStartup /\ [][NextStartup]_vars

\* the cost key a technology is mapped to: that of the last item of the two
\* maps whose name the technology contains, "" when there is none
CostKey(technology) ==
    LET items == settings.existing_startup_costs_tech_map \o settings.new_build_startup_costs
        ignore_case(n) == n <= Len(settings.existing_startup_costs_tech_map)
        hits == {n \in DOMAIN items :
                    IF ignore_case(n)
                    THEN ContainsNoCase(Chars(technology), Chars(items[n][1]))
                    ELSE Contains(Chars(technology), Chars(items[n][1]))}
    IN  IF hits = {} THEN "" ELSE items[CHOOSE n \in hits : \A m \in hits : m <= n][2]

\* C28: each startup cost is adjusted for inflation once: technologies of the
\* existing and of the new-build table that are mapped to the same cost key
\* have the same Start_Cost_per_MW, and calling startup_nonfuel_costs again
\* with the settings of the object returns the values of the first call.
C28_StartupCostsAdjustedOnce ==
    /\ pc \in {"new_costed", "costed_again"} =>
           \A i \in DOMAIN results : \A j \in DOMAIN new_resources :
               (/\ CostKey(results[i].technology) # ""
                /\ CostKey(results[i].technology) = CostKey(new_resources[j].technology))
                   => results[i].Start_Cost_per_MW = new_resources[j].Start_Cost_per_MW
    /\ pc = "costed_again" => existing_resources = results

(***************************************************************************)
(* add_fuel_labels (lines 2025-2170).  The Fuel column holds names the     *)
(* function builds from parts, so its values are sequences of characters;  *)
(* the empty sequence stands for the missing value.  A dictionary that the *)
(* code walks in order is the sequence of its items.  user_fuel_price maps *)
(* a fuel to [regional |-> FALSE] for a single price and to                *)
(* [regional |-> TRUE, regions |-> ...] for a dictionary of prices by      *)
(* region.                                                                 *)
(***************************************************************************)
NoFuel == <<>>

\* str.rstrip(c)
RECURSIVE RStrip(_, _)
RStrip(s, c) ==
    IF s # <<>> /\ s[Len(s)] = c THEN RStrip(SubSeq(s, 1, Len(s) - 1), c) ELSE s

\* str.split(c)
RECURSIVE Split(_, _)
Split(s, c) ==
    IF \E i \in DOMAIN s : s[i] = c
    THEN LET i == CHOOSE x \in DOMAIN s : s[x] = c /\ \A y \in 1..(x - 1) : s[y] # c
         IN  <<SubSeq(s, 1, i - 1)>> \o Split(SubSeq(s, i + 1, Len(s)), c)
    ELSE <<s>>

\* ("_").join(parts)
RECURSIVE Join(_)
Join(parts) ==
    IF parts = <<>> THEN <<>>
    ELSE IF Len(parts) = 1 THEN parts[1]
         ELSE parts[1] \o <<"_">> \o Join(Tail(parts))

\* lines 2047-2063: the ATB prefixes of an EIA technology, none for the steam
\* turbine and for a technology without an entry (KeyError caught)
AtbTech(st, eia_tech) ==
    IF \/ eia_tech = "Natural Gas Steam Turbine"
       \/ "eia_atb_tech_map" \notin DOMAIN st
       \/ eia_tech \notin DOMAIN st.eia_atb_tech_map
    THEN <<>>
    ELSE [n \in DOMAIN st.eia_atb_tech_map[eia_tech] |->
             Split(Chars(st.eia_atb_tech_map[eia_tech][n]), "_")[1] \o <<"_">>]

\* settings.get("aeo_fuel_scenarios", {}).get(fuel); "" stands for None
Scenario(st, fuel) ==
    IF "aeo_fuel_scenarios" \in DOMAIN st /\ fuel \in DOMAIN st.aeo_fuel_scenarios
    THEN st.aeo_fuel_scenarios[fuel]
    ELSE ""

UserFuels(st) == IF "user_fuel_price" \in DOMAIN st THEN DOMAIN st.user_fuel_price ELSE {}

\* df.loc[mask, "Fuel"] = name for the masks of the function: the rows whose
\* index is in `rows`
SetFuel(t, rows, name) ==
    [i \in DOMAIN t |-> IF i \in rows THEN [t[i] EXCEPT !.Fuel = name] ELSE t[i]]

\* str.rstrip("_").str.lower() == eia_tech.lower()
SameTechnology(technology, eia_tech) ==
    Lower(RStrip(Chars(technology), "_")) = Lower(Chars(eia_tech))

\* the loops over atb_tech: the rows of the regions that contain the prefix,
\* case ignored, and have no fuel yet
RECURSIVE AtbLoop(_, _, _, _)
AtbLoop(t, atb_tech, regions, name) ==
    IF atb_tech = <<>> THEN t
    ELSE AtbLoop(SetFuel(t, {i \in DOMAIN t :
                                /\ ContainsNoCase(Chars(t[i].technology), Head(atb_tech))
                                /\ t[i].region \in regions
                                /\ t[i].Fuel = NoFuel},
                         name),
                 Tail(atb_tech), regions, name)

AllRegions(t) == {t[i].region : i \in DOMAIN t}

\* mutant: a price record of any year
HasPrice_AnyYear(prices, model_year, fuel_name) ==
    \E n \in DOMAIN prices : prices[n].full_fuel_name = fuel_name

\* lines 2111-2116: the query of the assert
HasPrice(prices, model_year, fuel_name) ==
    \E n \in DOMAIN prices :
        prices[n].year = model_year /\ prices[n].full_fuel_name = fuel_name

\* lines 2109-2130: the AEO regions of a fuel with a scenario.  s is the state
\* of the call: the table, the last value of model_regions, the exception.
RECURSIVE AeoLoop(_, _, _, _, _, _, _, _)
AeoLoop(s, items, eia_tech, fuel, scenario, atb_tech, st, prices) ==
    IF items = <<>> THEN s
    ELSE LET aeo_region == Head(items)[1]
             model_regions == Range(Head(items)[2])
             fuel_name == Join(<<Chars(aeo_region), Chars(scenario), Chars(fuel)>>)
             exact == SetFuel(s.df, {i \in DOMAIN s.df :
                                        /\ s.df[i].technology = eia_tech
                                        /\ s.df[i].region \in model_regions},
                              fuel_name)
         IN  IF ~HasPrice(prices, st.model_year, fuel_name)
             THEN [s EXCEPT !.error = "AssertionError",
                            !.model_regions = model_regions, !.bound = TRUE]
             ELSE AeoLoop([s EXCEPT !.df = AtbLoop(exact, atb_tech, model_regions, fuel_name),
                                    !.model_regions = model_regions, !.bound = TRUE],
                          Tail(items), eia_tech, fuel, scenario, atb_tech, st, prices)

\* lines 2075-2093: the regions of a fuel with user prices by region
RECURSIVE UserRegionLoop(_, _, _, _, _)
UserRegionLoop(t, regions, eia_tech, fuel, atb_tech) ==
    IF regions = <<>> THEN t
    ELSE LET fuel_name == Join(<<Chars(Head(regions)), Chars(fuel)>>)
             equal == SetFuel(t, {i \in DOMAIN t :
                                     /\ SameTechnology(t[i].technology, eia_tech)
                                     /\ t[i].region = Head(regions)},
                              fuel_name)
         IN  UserRegionLoop(AtbLoop(equal, atb_tech, {Head(regions)}, fuel_name),
                            Tail(regions), eia_tech, fuel, atb_tech)

\* lines 2094-2107: a fuel with a single user price
UserFuel(t, eia_tech, fuel, atb_tech) ==
    AtbLoop(SetFuel(t, {i \in DOMAIN t :
                           /\ SameTechnology(t[i].technology, eia_tech)
                           /\ t[i].Fuel = NoFuel},
                    Chars(fuel)),
            atb_tech, AllRegions(t), Chars(fuel))

\* lines 2046-2130: the items of tech_fuel_map; an exception ends the call
RECURSIVE TechFuelLoop(_, _, _, _)
TechFuelLoop(s, items, st, prices) ==
    IF items = <<>> \/ s.error # "" THEN s
    ELSE LET eia_tech == Head(items)[1]
             fuel == Head(items)[2]
             atb_tech == AtbTech(st, eia_tech)
             scenario == Scenario(st, fuel)
             next ==
                 IF scenario = ""
                 THEN IF fuel \notin UserFuels(st)
                      THEN [s EXCEPT !.error = "KeyError"]
                      ELSE IF st.user_fuel_price[fuel].regional
                           THEN [s EXCEPT !.df =
                                    UserRegionLoop(s.df, st.user_fuel_price[fuel].regions,
                                                   eia_tech, fuel, atb_tech)]
                           ELSE [s EXCEPT !.df = UserFuel(s.df, eia_tech, fuel, atb_tech)]
                 ELSE AeoLoop(s, st.aeo_fuel_region_map, eia_tech, fuel, scenario,
                              atb_tech, st, prices)
         IN  TechFuelLoop(next, Tail(items), st, prices)

\* mutant: only the rows that have no fuel yet
CcsRows_Unlabelled(t, ccs_tech, model_regions) ==
    {i \in DOMAIN t :
        /\ Contains(Chars(t[i].technology), Chars(ccs_tech))
        /\ t[i].region \in model_regions
        /\ t[i].Fuel = NoFuel}

\* lines 2139-2142: str.contains(ccs_tech) & region.isin(model_regions)
CcsRows(t, ccs_tech, model_regions) ==
    {i \in DOMAIN t :
        /\ Contains(Chars(t[i].technology), Chars(ccs_tech))
        /\ t[i].region \in model_regions}

\* lines 2136-2143: the AEO regions of a CCS fuel
RECURSIVE CcsAeoLoop(_, _, _, _, _)
CcsAeoLoop(s, items, ccs_tech, ccs_fuel, scenario) ==
    IF items = <<>> THEN s
    ELSE LET model_regions == Range(Head(items)[2])
             ccs_fuel_name ==
                 Join(<<Chars(Head(items)[1]), Chars(scenario), Chars(ccs_fuel)>>)
         IN  CcsAeoLoop([s EXCEPT !.df = SetFuel(s.df, CcsRows(s.df, ccs_tech, model_regions),
                                                 ccs_fuel_name),
                                  !.model_regions = model_regions, !.bound = TRUE],
                        Tail(items), ccs_tech, ccs_fuel, scenario)

\* lines 2146-2152: the regions of the user prices; model_regions is whatever
\* an earlier loop left in it, and reading it unbound is a NameError
RECURSIVE CcsUserLoop(_, _, _, _)
CcsUserLoop(s, regions, ccs_tech, ccs_fuel) ==
    IF regions = <<>> \/ s.error # "" THEN s
    ELSE IF ~s.bound THEN [s EXCEPT !.error = "NameError"]
         ELSE CcsUserLoop([s EXCEPT !.df =
                              SetFuel(s.df, CcsRows(s.df, ccs_tech, s.model_regions),
                                      Join(<<Chars(Head(regions)), Chars(ccs_fuel)>>))],
                          Tail(regions), ccs_tech, ccs_fuel)

CcsWarning(ccs_fuel) ==
    [level |-> "WARNING", message |-> "CCS fuel matches no AEO or user fuel",
     fuel |-> ccs_fuel]

\* lines 2132-2166: the items of ccs_fuel_map
RECURSIVE CcsLoop(_, _, _)
CcsLoop(s, items, st) ==
    IF items = <<>> \/ s.error # "" THEN s
    ELSE LET ccs_tech == Head(items)[1]
             ccs_fuel == Head(items)[2]
             parts == Split(Chars(ccs_fuel), "_")
             ccs_base_name == Join(SubSeq(parts, 1, Len(parts) - 1))
             aeo == IF "aeo_fuel_scenarios" \in DOMAIN st
                    THEN {f \in DOMAIN st.aeo_fuel_scenarios : Chars(f) = ccs_base_name}
                    ELSE {}
             user == {f \in UserFuels(st) : Chars(f) = ccs_base_name}
             next ==
                 IF aeo # {}
                 THEN CcsAeoLoop(s, st.aeo_fuel_region_map, ccs_tech, ccs_fuel,
                                 st.aeo_fuel_scenarios[CHOOSE f \in aeo : TRUE])
                 ELSE IF user # {}
                      THEN LET price == st.user_fuel_price[CHOOSE f \in user : TRUE]
                           IN  IF price.regional
                               THEN CcsUserLoop(s, price.regions, ccs_tech, ccs_fuel)
                               ELSE IF ~s.bound THEN [s EXCEPT !.error = "NameError"]
                                    ELSE [s EXCEPT !.df =
                                             SetFuel(s.df,
                                                     CcsRows(s.df, ccs_tech, s.model_regions),
                                                     Chars(ccs_fuel))]
                      ELSE [s EXCEPT !.log = Append(s.log, CcsWarning(ccs_fuel))]
         IN  CcsLoop(next, Tail(items), st)

Items(st, key) == IF key \in DOMAIN st THEN st[key] ELSE <<>>

\* add_fuel_labels: the table it returns, what it logs and the exception it
\* ends with
add_fuel_labels(t, prices, st) ==
    LET start == [df |-> [i \in DOMAIN t |-> AddCol(t[i], "Fuel", NoFuel)],
                  model_regions |-> {}, bound |-> FALSE, error |-> "", log |-> <<>>]
        labelled == CcsLoop(TechFuelLoop(start, Items(st, "tech_fuel_map"), st, prices),
                            Items(st, "ccs_fuel_map"), st)
    IN  [df |-> [i \in DOMAIN labelled.df |->
                    IF labelled.df[i].Fuel = NoFuel
                    THEN [labelled.df[i] EXCEPT !.Fuel = Chars("None")]
                    ELSE labelled.df[i]],
         log |-> labelled.log,
         error |-> labelled.error]

(***************************************************************************)
(* add_fuel_labels on its own (SpecFuel): existing and new-build resources *)
(* of three regions, two of them in an AEO fuel region; coal and natural   *)
(* gas with or without an AEO scenario or a user price; price tables that  *)
(* lack a record or hold it for another year only.                         *)
(***************************************************************************)
MaxFuelRows == 2

FuelTechnologies ==
    <<"Coal_CCS90_Mid", "Conventional Steam Coal", "NaturalGas_CC_Mid", "coal_ccs90_mid">>

FuelRegions == <<"R1", "R2", "R3">>

AeoFuelRegionMap == <<<<"mountain", <<"R1">>>>, <<"pacific", <<"R2">>>>>>

AeoFuelScenarios ==
    {NoDict,
     [aeo_fuel_scenarios |-> [coal |-> "reference", naturalgas |-> "reference"]],
     [aeo_fuel_scenarios |-> [coal |-> "reference"]]}

UserFuelPrices ==
    {NoDict,
     [user_fuel_price |-> [naturalgas |-> [regional |-> FALSE, regions |-> <<>>]]],
     [user_fuel_price |-> [naturalgas |-> [regional |-> TRUE, regions |-> <<"R1", "R3">>]]]}

CcsFuelMaps ==
    {NoDict,
     [ccs_fuel_map |-> <<<<"coal_ccs90", "coal_ccs90">>>>],
     [ccs_fuel_map |-> <<<<"Coal_CCS90", "coal_ccs90">>>>]}

PriceRecord(year, aeo_region, fuel) ==
    [year |-> year, fuel |-> fuel, region |-> aeo_region, scenario |-> "reference",
     full_fuel_name |-> Join(<<Chars(aeo_region), Chars("reference"), Chars(fuel)>>)]

AllPrices ==
    <<PriceRecord(2030, "mountain", "coal"), PriceRecord(2030, "pacific", "coal"),
      PriceRecord(2030, "mountain", "naturalgas"),
      PriceRecord(2030, "pacific", "naturalgas")>>

\* every record; none; without pacific coal; pacific natural gas for another
\* year only
FuelPriceTables ==
    {AllPrices,
     <<>>,
     <<AllPrices[1], AllPrices[3], AllPrices[4]>>,
     <<AllPrices[1], AllPrices[2], AllPrices[3],
       PriceRecord(2040, "pacific", "naturalgas")>>}

FuelSettings(scenarios, user, ccs) ==
    Merged(Merged(Merged([model_year |-> 2030,
                          tech_fuel_map |->
                              <<<<"Conventional Steam Coal", "coal">>,
                                <<"Natural Gas Fired Combined Cycle", "naturalgas">>>>,
                          eia_atb_tech_map |->
                              [t \in {"Conventional Steam Coal",
                                      "Natural Gas Fired Combined Cycle"} |->
                                  IF t = "Conventional Steam Coal"
                                  THEN <<"Coal_New">> ELSE <<"NaturalGas_CC">>],
                          aeo_fuel_region_map |-> AeoFuelRegionMap],
                         scenarios),
                  user),
           ccs)

InitFuel ==
    \E ps \in Ascending(MaxFuelRows, Len(FuelTechnologies) * Len(FuelRegions)) :
    \E scenarios \in AeoFuelScenarios, user \in UserFuelPrices, ccs \in CcsFuelMaps :
    \E prices \in FuelPriceTables :
        /\ pc = "startup_fuel_added"
        /\ error = ""
        /\ settings = FuelSettings(scenarios, user, ccs)
        /\ fuel_prices = prices
        /\ results =
               [i \in 1..MaxFuelRows |->
                   ResourceRow(FuelRegions[((ps[i] - 1) % Len(FuelRegions)) + 1],
                               FuelTechnologies[((ps[i] - 1) \div Len(FuelRegions)) + 1])]
        /\ ReconIdle
        /\ HRIdle
        /\ units_model = <<>>
        /\ num_clusters = <<>> /\ region_tech_grouped = <<>> /\ todo = <<>>
        /\ retired = <<>> /\ unit_list = <<>> /\ cluster_list = <<>>
        /\ log = <<>> /\ fitted = <<>>
        /\ BuildIdle
        /\ resource_df = <<>>
        /\ offshore_spur_costs = <<>>
        /\ LoadIdle

\* lines 3044 and 3112: the table is changed in place and returned
AddFuelLabels ==
    /\ pc = "startup_fuel_added"
    /\ LET out == add_fuel_labels(results, fuel_prices, settings)
       IN  /\ error' = out.error
           /\ log' = log \o out.log
           /\ results' = IF out.error = "" THEN out.df ELSE results
           /\ pc' = IF out.error = "" THEN "fuel_labelled" ELSE "failed"
    /\ UNCHANGED <<reconVars, hrVars, units_model, settings, num_clusters,
                   region_tech_grouped, todo, retired, unit_list, cluster_list, fitted,
                   otherVars>>

NextFuel == AddFuelLabels

SpecFuel == InitFuel /\ [][NextFuel]_vars

(***************************************************************************)
(* Properties of the fuel labels.                                          *)
(***************************************************************************)
FuelDone == pc \in {"fuel_labelled", "failed"}

\* the AEO fuel regions a model region belongs to
AeoRegionsOf(region) ==
    {n \in DOMAIN settings.aeo_fuel_region_map :
        region \in Range(settings.aeo_fuel_region_map[n][2])}

\* a CCS fuel without its last part
BaseFuel(ccs_fuel) ==
    LET parts == Split(Chars(ccs_fuel), "_") IN Join(SubSeq(parts, 1, Len(parts) - 1))

\* the scenario of the base fuel of a CCS fuel, "" when it has none
BaseScenario(ccs_fuel) ==
    IF \E f \in {"coal", "naturalgas"} : Chars(f) = BaseFuel(ccs_fuel) /\ Scenario(settings, f) # ""
    THEN Scenario(settings, CHOOSE f \in {"coal", "naturalgas"} : Chars(f) = BaseFuel(ccs_fuel))
    ELSE ""

\* an item of ccs_fuel_map applies to a row
CcsRuleApplies(r, item) ==
    /\ BaseScenario(item[2]) # ""
    /\ Contains(Chars(r.technology), Chars(item[1]))
    /\ AeoRegionsOf(r.region) # {}

\* an item of tech_fuel_map applies to a row: by the name of the technology or
\* by the prefix of one of its ATB technologies, in a region of the fuel
TechRuleApplies(r, item) ==
    LET prefix == \E n \in DOMAIN AtbTech(settings, item[1]) :
                      ContainsNoCase(Chars(r.technology), AtbTech(settings, item[1])[n])
    IN  IF Scenario(settings, item[2]) # ""
        THEN (r.technology = item[1] \/ prefix) /\ AeoRegionsOf(r.region) # {}
        ELSE /\ SameTechnology(r.technology, item[1]) \/ prefix
             /\ settings.user_fuel_price[item[2]].regional
                    => r.region \in Range(settings.user_fuel_price[item[2]].regions)

\* C21: with a ccs_fuel_map item whose base fuel has a scenario, every
\* resource whose technology contains the item's key and whose region is in
\* an AEO fuel region is labelled <aeo_region>_<scenario>_<ccs fuel>, whatever
\* tech_fuel_map gave it; a resource no rule applies to is labelled "None".
C21_CcsFuelLabels ==
    pc = "fuel_labelled" =>
        \A i \in DOMAIN results :
            /\ \A n \in DOMAIN Items(settings, "ccs_fuel_map") :
                   LET item == settings.ccs_fuel_map[n]
                   IN  CcsRuleApplies(results[i], item) =>
                           \E a \in AeoRegionsOf(results[i].region) :
                               results[i].Fuel =
                                   Join(<<Chars(settings.aeo_fuel_region_map[a][1]),
                                          Chars(BaseScenario(item[2])),
                                          Chars(item[2])>>)
            /\ (/\ \A n \in DOMAIN Items(settings, "ccs_fuel_map") :
                       ~CcsRuleApplies(results[i], settings.ccs_fuel_map[n])
                /\ \A n \in DOMAIN Items(settings, "tech_fuel_map") :
                       ~TechRuleApplies(results[i], settings.tech_fuel_map[n]))
                   => results[i].Fuel = Chars("None")

\* a labelled table with a CCS resource that tech_fuel_map alone would label
\* with the plain fuel of its region, and a resource that no rule applies to
C21_Witness ==
    /\ pc = "fuel_labelled"
    /\ \E i \in DOMAIN results :
       \E n \in DOMAIN Items(settings, "ccs_fuel_map") :
           /\ CcsRuleApplies(results[i], settings.ccs_fuel_map[n])
           /\ \E m \in DOMAIN settings.tech_fuel_map :
                  TechRuleApplies(results[i], settings.tech_fuel_map[m])
           /\ results[i].Fuel = Chars("mountain") \o <<"_">> \o Chars("reference")
                                    \o <<"_">> \o Chars("coal_ccs90")
    /\ \E i \in DOMAIN results : results[i].Fuel = Chars("None")

\* a fuel of tech_fuel_map that has a scenario and lacks the price record of
\* an AEO region in the model year
MissingPrice ==
    \E n \in DOMAIN settings.tech_fuel_map :
    \E a \in DOMAIN settings.aeo_fuel_region_map :
        LET fuel == settings.tech_fuel_map[n][2]
        IN  /\ Scenario(settings, fuel) # ""
            /\ \A p \in DOMAIN fuel_prices :
                   ~(/\ fuel_prices[p].year = settings.model_year
                     /\ fuel_prices[p].region = settings.aeo_fuel_region_map[a][1]
                     /\ fuel_prices[p].scenario = Scenario(settings, fuel)
                     /\ fuel_prices[p].fuel = fuel)

\* a fuel of tech_fuel_map with neither a scenario nor a user price
UnknownFuel ==
    \E n \in DOMAIN settings.tech_fuel_map :
        /\ Scenario(settings, settings.tech_fuel_map[n][2]) = ""
        /\ settings.tech_fuel_map[n][2] \notin UserFuels(settings)

\* C22: add_fuel_labels ends with an error, and returns no table, whenever a
\* fuel of tech_fuel_map has a scenario but no price record of an AEO region
\* in the model year, and whenever a fuel of tech_fuel_map has neither a
\* scenario nor a user price.
C22_MissingPricesAreErrors ==
    (FuelDone /\ (MissingPrice \/ UnknownFuel)) => (pc = "failed" /\ error # "")

\* the call failed on a price table that has the record for another year only
C22_Witness ==
    /\ pc = "failed"
    /\ error = "AssertionError"
    /\ ~UnknownFuel
    /\ fuel_prices # <<>>
    /\ \E p \in DOMAIN fuel_prices : fuel_prices[p].year # settings.model_year

====
